---------------------------- MODULE Spec2Model ----------------------------
(***************************************************************************)
(* EcoScan AI: the camera screen's inference state machine                 *)
(* (app/camera.tsx) and the tip generator (lib/utils/tipGenerator.js,      *)
(* src/utils/tipGenerator.js).                                             *)
(*                                                                         *)
(* Conventions.                                                            *)
(*  - Confidence values are hundredths: 0.05 is 5, 0.1 is 10, 0.3 is 30.   *)
(*  - Times are milliseconds.  The clock moves on the grid of the          *)
(*    setInterval timer (one INFERENCE_INTERVAL per Tick); a timeout or a  *)
(*    promise that is due between two ticks fires between them.            *)
(*  - Strings that the code inspects character by character (error         *)
(*    messages, tip keys) are sequences of one-character strings; strings  *)
(*    that are only stored, compared or concatenated are TLA+ strings.     *)
(*  - CameraScreen is a React function component.  Every render creates    *)
(*    new scheduleInference / handleDetectionResult / handleInferenceError *)
(*    functions that close over that render's useState values.  The        *)
(*    interval callback of camera.tsx:65 calls the scheduleInference of    *)
(*    the render in which the effect ran, and the effect runs again only   *)
(*    when hasPermission or cameraRef change (camera.tsx:75).  The model   *)
(*    keeps that render's values in `timer.closure`; the useState cells    *)
(*    themselves are the variables named after them.                       *)
(***************************************************************************)
EXTENDS Integers, Sequences, FiniteSets, TLC

VARIABLES
    hasPermission,       \* useState<boolean|null>: "null" | "true" | "false"
    cameraRef,           \* useState<Camera|null>: "null" | "camera"
    isInferencing,       \* useState(false)
    lastInferenceTime,   \* useState(0)
    detectionResult,     \* useState<any>(null)
    inferenceErrors,     \* useState(0)
    lowLightWarning,     \* useState(false)
    noDetectionCount,    \* useState(0)
    isCapturing,         \* useState(false)
    captures,            \* handleCapture invocations suspended at an await
    showPermissionError, \* useState(false)
    timer,               \* the setInterval of the scheduling effect and its closure
    flights,             \* scheduleInference invocations suspended at an await
    lowLightTimers,      \* due times of the pending setTimeout(() => setLowLightWarning(false))
    permission,          \* requestCameraPermission: "requesting" | "idle"
    alert,               \* title of the Alert.alert call the last step made, or "none"
    route,               \* "camera" | "results" | "back"
    now,                 \* Date.now()
    lowRun,              \* history: length of the current run of sub-threshold results
    failRun,             \* history: failed periodic inferences since the last result
    lastEvent,           \* history: what the last inference handler was called with
    tipImpl,             \* tip generator under evaluation: "lib" | "src"
    tipKey,              \* argument of generateTip
    tipRandom,           \* the value Math.random() returns, in RandomDenom-ths
    tipResult,           \* what generateTip returned, or NotCalled
    classifier,          \* classifier module in use: "tf" | "guide" | "mobile"
    imageUri,            \* argument of classifyImage: "photo" | "missing"
    modelLoaded,         \* the module's `model` is set / mockModelLoaded
    fault,               \* the step of the pipeline that fails, or "none"
    predictions,         \* scores the model puts out, in hundredths
    mockClock,           \* Date.now() % 4 seen by the mobile mock
    mockRandom,          \* Math.random() seen by the mobile mock, in RandomDenom-ths
    classification,      \* what the call under evaluation returned, or NotClassified
    errorArg,            \* first argument of categorizeError
    errorContext,        \* second argument of categorizeError
    errorAnalysis        \* what categorizeError returned, or NotCategorized

cameraVars == <<hasPermission, cameraRef, isInferencing, lastInferenceTime,
                detectionResult, inferenceErrors, lowLightWarning,
                noDetectionCount, isCapturing, captures, showPermissionError,
                timer, flights, lowLightTimers, permission, alert, route,
                now, lowRun, failRun, lastEvent>>
tipVars == <<tipImpl, tipKey, tipRandom, tipResult>>
modelVars == <<classifier, imageUri, modelLoaded, fault, predictions,
               mockClock, mockRandom, classification>>
errorVars == <<errorArg, errorContext, errorAnalysis>>
vars == <<hasPermission, cameraRef, isInferencing, lastInferenceTime,
          detectionResult, inferenceErrors, lowLightWarning,
          noDetectionCount, isCapturing, captures, showPermissionError,
          timer, flights, lowLightTimers, permission, alert, route,
          now, lowRun, failRun, lastEvent,
          tipImpl, tipKey, tipRandom, tipResult,
          classifier, imageUri, modelLoaded, fault, predictions,
          mockClock, mockRandom, classification,
          errorArg, errorContext, errorAnalysis>>

-----------------------------------------------------------------------------
(* Configuration constants of CameraScreen (camera.tsx:41-46).             *)

INFERENCE_INTERVAL == 1500
CONFIDENCE_DISPLAY_THRESHOLD == 30
LOW_CONFIDENCE_THRESHOLD == 10
MAX_INFERENCE_ERRORS == 3
NO_DETECTION_THRESHOLD == 5
INFERENCE_TIMEOUT == 10000
LOW_LIGHT_CONFIDENCE == 5
LOW_LIGHT_CLEAR_DELAY == 3000

(* Bounds of the model.                                                    *)
MaxTicks == 7       \* timer ticks explored after the session starts
MaxInFlight == 2    \* scheduleInference invocations suspended at once
MaxRun == 6         \* the history counters saturate above this
MaxLateness == 500  \* how late a timer callback may run (ms)

StartTime == 3000   \* Date.now() when the session starts (any value >= INFERENCE_INTERVAL)
MaxTime == StartTime + MaxTicks * INFERENCE_INTERVAL

-----------------------------------------------------------------------------
(* JavaScript strings as character sequences.                              *)

\* String.prototype.includes: sub occurs in s, letter case respected
Includes(s, sub) ==
    \E i \in 1..(Len(s) - Len(sub) + 1) : SubSeq(s, i, i + Len(sub) - 1) = sub

Last(seq) == seq[Len(seq)]

-----------------------------------------------------------------------------
(* What the classifier and the camera hand to the screen.                  *)

Categories == {"Recyclable", "Compostable", "Trash", "Unknown"}
Confidences == {0, 5, 10, 29, 30, 100}
Results == [category : Categories, confidence : Confidences]

MsgInferenceTimeout == <<"I","n","f","e","r","e","n","c","e"," ","t","i","m","e","o","u","t">>
MsgCameraNotReady == <<"c","a","m","e","r","a"," ","i","s"," ","n","o","t"," ","r","e","a","d","y">>
MsgCameraCapital == <<"C","a","m","e","r","a"," ","u","n","a","v","a","i","l","a","b","l","e">>
MsgModel == <<"m","o","d","e","l"," ","n","o","t"," ","l","o","a","d","e","d">>
MsgTensor == <<"t","e","n","s","o","r"," ","d","i","s","p","o","s","e","d">>
MsgMemory == <<"o","u","t"," ","o","f"," ","m","e","m","o","r","y">>
MsgCameraTimeout == <<"c","a","m","e","r","a"," ","t","i","m","e","o","u","t">>

\* messages a rejected takePictureAsync may carry
CaptureErrorMessages ==
    {MsgCameraNotReady, MsgCameraCapital, MsgModel, MsgTensor, MsgMemory,
     MsgCameraTimeout}

NoMessage == <<>>

\* the object a handler passes to setDetectionResult; absent flags are FALSE
Display(category, confidence, help, low, err, message) ==
    [category |-> category, confidence |-> confidence, isHelpMessage |-> help,
     isLowConfidence |-> low, isError |-> err, error |-> message]

NullResult == Display("null", 0, FALSE, FALSE, FALSE, NoMessage)

LabelNoClearObject == "No clear object detected"
LabelHelp == "Try adjusting camera angle or lighting"

-----------------------------------------------------------------------------
(* The handlers, as functions of their arguments and of the useState       *)
(* values their closure holds.                                             *)

\* Variants of handleDetectionResult with one line changed, as a slip in
\* camera.tsx would change it; the properties below are sensitive to each.
\* the no-detection branch shows the classifier's category
handleDetectionResult_RawLabel(result, closureCount) ==
    IF result.confidence < LOW_CONFIDENCE_THRESHOLD
    THEN LET newNoDetectionCount == closureCount + 1
         IN  [detectionResult |->
                  IF newNoDetectionCount >= NO_DETECTION_THRESHOLD
                  THEN Display(LabelHelp, result.confidence, TRUE, FALSE, FALSE, NoMessage)
                  ELSE Display(result.category, result.confidence, FALSE, FALSE, FALSE, NoMessage),
              setNoDetectionCount |->
                  IF newNoDetectionCount >= NO_DETECTION_THRESHOLD
                  THEN <<newNoDetectionCount, 0>>
                  ELSE <<newNoDetectionCount>>,
              lowLight |->
                  IF result.confidence < LOW_LIGHT_CONFIDENCE THEN "raise" ELSE "keep"]
    ELSE IF result.confidence >= CONFIDENCE_DISPLAY_THRESHOLD
    THEN [detectionResult |->
              Display(result.category, result.confidence, FALSE, FALSE, FALSE, NoMessage),
          setNoDetectionCount |-> <<0>>,
          lowLight |-> "clear"]
    ELSE [detectionResult |->
              Display("Possible " \o result.category, result.confidence, FALSE, TRUE, FALSE, NoMessage),
          setNoDetectionCount |-> <<>>,
          lowLight |-> "keep"]

\* > instead of >= at the display threshold
handleDetectionResult_StrictDisplay(result, closureCount) ==
    IF result.confidence < LOW_CONFIDENCE_THRESHOLD
    THEN LET newNoDetectionCount == closureCount + 1
         IN  [detectionResult |->
                  IF newNoDetectionCount >= NO_DETECTION_THRESHOLD
                  THEN Display(LabelHelp, result.confidence, TRUE, FALSE, FALSE, NoMessage)
                  ELSE Display(LabelNoClearObject, result.confidence, FALSE, FALSE, FALSE, NoMessage),
              setNoDetectionCount |->
                  IF newNoDetectionCount >= NO_DETECTION_THRESHOLD
                  THEN <<newNoDetectionCount, 0>>
                  ELSE <<newNoDetectionCount>>,
              lowLight |->
                  IF result.confidence < LOW_LIGHT_CONFIDENCE THEN "raise" ELSE "keep"]
    ELSE IF result.confidence > CONFIDENCE_DISPLAY_THRESHOLD
    THEN [detectionResult |->
              Display(result.category, result.confidence, FALSE, FALSE, FALSE, NoMessage),
          setNoDetectionCount |-> <<0>>,
          lowLight |-> "clear"]
    ELSE [detectionResult |->
              Display("Possible " \o result.category, result.confidence, FALSE, TRUE, FALSE, NoMessage),
          setNoDetectionCount |-> <<>>,
          lowLight |-> "keep"]

\* the middle band shows the category without 'Possible '
handleDetectionResult_NoPrefix(result, closureCount) ==
    IF result.confidence < LOW_CONFIDENCE_THRESHOLD
    THEN LET newNoDetectionCount == closureCount + 1
         IN  [detectionResult |->
                  IF newNoDetectionCount >= NO_DETECTION_THRESHOLD
                  THEN Display(LabelHelp, result.confidence, TRUE, FALSE, FALSE, NoMessage)
                  ELSE Display(LabelNoClearObject, result.confidence, FALSE, FALSE, FALSE, NoMessage),
              setNoDetectionCount |->
                  IF newNoDetectionCount >= NO_DETECTION_THRESHOLD
                  THEN <<newNoDetectionCount, 0>>
                  ELSE <<newNoDetectionCount>>,
              lowLight |->
                  IF result.confidence < LOW_LIGHT_CONFIDENCE THEN "raise" ELSE "keep"]
    ELSE IF result.confidence >= CONFIDENCE_DISPLAY_THRESHOLD
    THEN [detectionResult |->
              Display(result.category, result.confidence, FALSE, FALSE, FALSE, NoMessage),
          setNoDetectionCount |-> <<0>>,
          lowLight |-> "clear"]
    ELSE [detectionResult |->
              Display(result.category, result.confidence, FALSE, TRUE, FALSE, NoMessage),
          setNoDetectionCount |-> <<>>,
          lowLight |-> "keep"]

\* <= instead of < at the low confidence threshold
handleDetectionResult_InclusiveLow(result, closureCount) ==
    IF result.confidence <= LOW_CONFIDENCE_THRESHOLD
    THEN LET newNoDetectionCount == closureCount + 1
         IN  [detectionResult |->
                  IF newNoDetectionCount >= NO_DETECTION_THRESHOLD
                  THEN Display(LabelHelp, result.confidence, TRUE, FALSE, FALSE, NoMessage)
                  ELSE Display(LabelNoClearObject, result.confidence, FALSE, FALSE, FALSE, NoMessage),
              setNoDetectionCount |->
                  IF newNoDetectionCount >= NO_DETECTION_THRESHOLD
                  THEN <<newNoDetectionCount, 0>>
                  ELSE <<newNoDetectionCount>>,
              lowLight |->
                  IF result.confidence < LOW_LIGHT_CONFIDENCE THEN "raise" ELSE "keep"]
    ELSE IF result.confidence >= CONFIDENCE_DISPLAY_THRESHOLD
    THEN [detectionResult |->
              Display(result.category, result.confidence, FALSE, FALSE, FALSE, NoMessage),
          setNoDetectionCount |-> <<0>>,
          lowLight |-> "clear"]
    ELSE [detectionResult |->
              Display("Possible " \o result.category, result.confidence, FALSE, TRUE, FALSE, NoMessage),
          setNoDetectionCount |-> <<>>,
          lowLight |-> "keep"]

\* the display branch forgets setNoDetectionCount(0)
handleDetectionResult_NoReset(result, closureCount) ==
    IF result.confidence < LOW_CONFIDENCE_THRESHOLD
    THEN LET newNoDetectionCount == closureCount + 1
         IN  [detectionResult |->
                  IF newNoDetectionCount >= NO_DETECTION_THRESHOLD
                  THEN Display(LabelHelp, result.confidence, TRUE, FALSE, FALSE, NoMessage)
                  ELSE Display(LabelNoClearObject, result.confidence, FALSE, FALSE, FALSE, NoMessage),
              setNoDetectionCount |->
                  IF newNoDetectionCount >= NO_DETECTION_THRESHOLD
                  THEN <<newNoDetectionCount, 0>>
                  ELSE <<newNoDetectionCount>>,
              lowLight |->
                  IF result.confidence < LOW_LIGHT_CONFIDENCE THEN "raise" ELSE "keep"]
    ELSE IF result.confidence >= CONFIDENCE_DISPLAY_THRESHOLD
    THEN [detectionResult |->
              Display(result.category, result.confidence, FALSE, FALSE, FALSE, NoMessage),
          setNoDetectionCount |-> <<>>,
          lowLight |-> "clear"]
    ELSE [detectionResult |->
              Display("Possible " \o result.category, result.confidence, FALSE, TRUE, FALSE, NoMessage),
          setNoDetectionCount |-> <<>>,
          lowLight |-> "keep"]

\* handleDetectionResult with a middle-band branch that resets the counter
handleDetectionResult_MiddleResets(result, closureCount) ==
    IF result.confidence < LOW_CONFIDENCE_THRESHOLD
    THEN LET newNoDetectionCount == closureCount + 1
         IN  [detectionResult |->
                  IF newNoDetectionCount >= NO_DETECTION_THRESHOLD
                  THEN Display(LabelHelp, result.confidence, TRUE, FALSE, FALSE, NoMessage)
                  ELSE Display(LabelNoClearObject, result.confidence, FALSE, FALSE, FALSE, NoMessage),
              setNoDetectionCount |->
                  IF newNoDetectionCount >= NO_DETECTION_THRESHOLD
                  THEN <<newNoDetectionCount, 0>>
                  ELSE <<newNoDetectionCount>>,
              lowLight |->
                  IF result.confidence < LOW_LIGHT_CONFIDENCE THEN "raise" ELSE "keep"]
    ELSE IF result.confidence >= CONFIDENCE_DISPLAY_THRESHOLD
    THEN [detectionResult |->
              Display(result.category, result.confidence, FALSE, FALSE, FALSE, NoMessage),
          setNoDetectionCount |-> <<0>>,
          lowLight |-> "clear"]
    ELSE [detectionResult |->
              Display("Possible " \o result.category, result.confidence, FALSE, TRUE, FALSE, NoMessage),
          setNoDetectionCount |-> <<0>>,
          lowLight |-> "keep"]

\* handleDetectionResult without the reset that follows the help message
handleDetectionResult_NoThresholdReset(result, closureCount) ==
    IF result.confidence < LOW_CONFIDENCE_THRESHOLD
    THEN LET newNoDetectionCount == closureCount + 1
         IN  [detectionResult |->
                  IF newNoDetectionCount >= NO_DETECTION_THRESHOLD
                  THEN Display(LabelHelp, result.confidence, TRUE, FALSE, FALSE, NoMessage)
                  ELSE Display(LabelNoClearObject, result.confidence, FALSE, FALSE, FALSE, NoMessage),
              setNoDetectionCount |->
                  IF newNoDetectionCount >= NO_DETECTION_THRESHOLD
                  THEN <<newNoDetectionCount>>
                  ELSE <<newNoDetectionCount>>,
              lowLight |->
                  IF result.confidence < LOW_LIGHT_CONFIDENCE THEN "raise" ELSE "keep"]
    ELSE IF result.confidence >= CONFIDENCE_DISPLAY_THRESHOLD
    THEN [detectionResult |->
              Display(result.category, result.confidence, FALSE, FALSE, FALSE, NoMessage),
          setNoDetectionCount |-> <<0>>,
          lowLight |-> "clear"]
    ELSE [detectionResult |->
              Display("Possible " \o result.category, result.confidence, FALSE, TRUE, FALSE, NoMessage),
          setNoDetectionCount |-> <<>>,
          lowLight |-> "keep"]

\* handleDetectionResult (camera.tsx:179-223).  closureCount is the
\* noDetectionCount of the render that created this handler.
\* setNoDetectionCount lists the values the handler passes to the setter, in
\* order (the last one is the next state; none leaves the state alone);
\* lowLight tells what happens to lowLightWarning: "raise" also starts the
\* 3 s timer that clears it.
handleDetectionResult(result, closureCount) ==
    IF result.confidence < LOW_CONFIDENCE_THRESHOLD
    THEN LET newNoDetectionCount == closureCount + 1
         IN  [detectionResult |->
                  IF newNoDetectionCount >= NO_DETECTION_THRESHOLD
                  THEN Display(LabelHelp, result.confidence, TRUE, FALSE, FALSE, NoMessage)
                  ELSE Display(LabelNoClearObject, result.confidence, FALSE, FALSE, FALSE, NoMessage),
              setNoDetectionCount |->
                  IF newNoDetectionCount >= NO_DETECTION_THRESHOLD
                  THEN <<newNoDetectionCount, 0>>
                  ELSE <<newNoDetectionCount>>,
              lowLight |->
                  IF result.confidence < LOW_LIGHT_CONFIDENCE THEN "raise" ELSE "keep"]
    ELSE IF result.confidence >= CONFIDENCE_DISPLAY_THRESHOLD
    THEN [detectionResult |->
              Display(result.category, result.confidence, FALSE, FALSE, FALSE, NoMessage),
          setNoDetectionCount |-> <<0>>,
          lowLight |-> "clear"]
    ELSE [detectionResult |->
              Display("Possible " \o result.category, result.confidence, FALSE, TRUE, FALSE, NoMessage),
          setNoDetectionCount |-> <<>>,
          lowLight |-> "keep"]

\* the error categories of handleInferenceError (camera.tsx:233-245), first match wins
ErrorCategory(message) ==
    IF Includes(message, <<"t","i","m","e","o","u","t">>)
    THEN [errorMessage |-> "Detection taking too long - try again", isRecoverable |-> TRUE]
    ELSE IF Includes(message, <<"c","a","m","e","r","a">>)
    THEN [errorMessage |-> "Camera error - check permissions", isRecoverable |-> FALSE]
    ELSE IF Includes(message, <<"m","o","d","e","l">>) \/ Includes(message, <<"t","e","n","s","o","r">>)
    THEN [errorMessage |-> "AI model error - restart app if this persists", isRecoverable |-> FALSE]
    ELSE IF Includes(message, <<"m","e","m","o","r","y">>)
    THEN [errorMessage |-> "Low memory - close other apps", isRecoverable |-> FALSE]
    ELSE [errorMessage |-> "Detection error", isRecoverable |-> TRUE]

AlertDetectionError == "Detection Error"
AlertCaptureError == "Capture Error"
AlertPermission == "Camera Permission Required"
NoAlert == "none"

\* handleInferenceError (camera.tsx:229-267)
handleInferenceError(message, errorCount) ==
    LET cat == ErrorCategory(message)
    IN  [detectionResult |-> Display(cat.errorMessage, 0, FALSE, FALSE, TRUE, message),
         alert |-> IF errorCount >= MAX_INFERENCE_ERRORS /\ ~cat.isRecoverable
                   THEN AlertDetectionError
                   ELSE NoAlert]

-----------------------------------------------------------------------------
(* The session: state after construction.                                  *)

\* the useState values a render's functions close over
RenderClosure(ref) ==
    [isInferencing |-> isInferencing, lastInferenceTime |-> lastInferenceTime,
     inferenceErrors |-> inferenceErrors, noDetectionCount |-> noDetectionCount,
     isCapturing |-> isCapturing, cameraRef |-> ref]

NoClosure ==
    [isInferencing |-> FALSE, lastInferenceTime |-> 0, inferenceErrors |-> 0,
     noDetectionCount |-> 0, isCapturing |-> FALSE, cameraRef |-> "null"]

NoTimer == [active |-> FALSE, closure |-> NoClosure]

Broken == 0 - 1

NoEvent ==
    [kind |-> "none", result |-> [category |-> "Unknown", confidence |-> 0],
     message |-> NoMessage, countBefore |-> 0, lowLight |-> "keep",
     alert |-> NoAlert]

NotCalled == [kind |-> "not called", text |-> ""]

TipIdle ==
    /\ tipImpl = "lib"
    /\ tipKey = <<>>
    /\ tipRandom = 0
    /\ tipResult = NotCalled

CameraInit ==
    /\ hasPermission = "null"
    /\ cameraRef = "null"
    /\ isInferencing = FALSE
    /\ lastInferenceTime = 0
    /\ detectionResult = NullResult
    /\ inferenceErrors = 0
    /\ lowLightWarning = FALSE
    /\ noDetectionCount = 0
    /\ isCapturing = FALSE
    /\ captures = 0
    /\ showPermissionError = FALSE
    /\ timer = NoTimer
    /\ flights = {}
    /\ lowLightTimers = {}
    /\ permission = "requesting"     \* the mount effect calls requestCameraPermission
    /\ alert = NoAlert
    /\ route = "camera"
    /\ now = StartTime
    /\ lowRun = 0
    /\ failRun = 0
    /\ lastEvent = NoEvent

\* no classifier call is under evaluation
NotClassified ==
    [call |-> "", outcome |-> "not called", category |-> "", confidence |-> 0, error |-> ""]

ModelIdle ==
    /\ classifier = "tf"
    /\ imageUri = "photo"
    /\ modelLoaded = TRUE
    /\ fault = "none"
    /\ predictions = <<>>
    /\ mockClock = 0
    /\ mockRandom = 0
    /\ classification = NotClassified

NotCategorized == [category |-> "not called"]

ErrorIdle ==
    /\ errorArg = [type |-> "null"]
    /\ errorContext = <<>>
    /\ errorAnalysis = NotCategorized

Init == CameraInit /\ TipIdle /\ ModelIdle /\ ErrorIdle

-----------------------------------------------------------------------------
(* Camera permission (camera.tsx:52-54, 83-109) and the scheduling effect  *)
(* (camera.tsx:60-75).                                                     *)


\* the scheduling effect with its test of hasPermission (camera.tsx:63) left out
SchedulingEffect_IgnoresPermission(permissionState, ref) ==
    [active |-> TRUE, closure |-> RenderClosure(ref)]

\* The effect of camera.tsx:60-75, run after a render in which hasPermission
\* or cameraRef changed: it clears the previous interval and, when both are
\* set, starts one whose callback calls that render's scheduleInference.
SchedulingEffect(permissionState, ref) ==
    IF permissionState = "true" /\ ref = "camera"
    THEN [active |-> TRUE, closure |-> RenderClosure(ref)]
    ELSE NoTimer

\* status === 'granted': the camera view renders, its ref callback
\* (ref={setCameraRef}, camera.tsx:372) stores the camera, the effect runs.
PermissionGranted ==
    /\ route = "camera"
    /\ permission = "requesting"
    /\ permission' = "idle"
    /\ hasPermission' = "true"
    /\ showPermissionError' = FALSE
    /\ cameraRef' = "camera"
    /\ timer' = SchedulingEffect("true", "camera")
    /\ alert' = NoAlert
    /\ UNCHANGED <<isInferencing, lastInferenceTime, detectionResult,
                   inferenceErrors, lowLightWarning, noDetectionCount,
                   isCapturing, flights, lowLightTimers, route, now, lowRun, failRun, lastEvent>>
    /\ UNCHANGED <<captures, tipVars, modelVars, errorVars>>

\* any other status: error screen and the 'Camera Permission Required' alert
PermissionDenied ==
    /\ route = "camera"
    /\ permission = "requesting"
    /\ permission' = "idle"
    /\ hasPermission' = "false"
    /\ showPermissionError' = TRUE
    /\ cameraRef' = "null"
    /\ timer' = SchedulingEffect("false", "null")
    /\ alert' = AlertPermission
    /\ UNCHANGED <<isInferencing, lastInferenceTime, detectionResult,
                   inferenceErrors, lowLightWarning, noDetectionCount,
                   isCapturing, flights, lowLightTimers, route, now, lowRun, failRun, lastEvent>>
    /\ UNCHANGED <<captures, tipVars, modelVars, errorVars>>

\* requestCameraPermissionsAsync throws (camera.tsx:104-108)
PermissionThrows ==
    /\ route = "camera"
    /\ permission = "requesting"
    /\ permission' = "idle"
    /\ hasPermission' = "false"
    /\ showPermissionError' = TRUE
    /\ cameraRef' = "null"
    /\ timer' = SchedulingEffect("false", "null")
    /\ alert' = NoAlert
    /\ UNCHANGED <<isInferencing, lastInferenceTime, detectionResult,
                   inferenceErrors, lowLightWarning, noDetectionCount,
                   isCapturing, flights, lowLightTimers, route, now, lowRun, failRun, lastEvent>>
    /\ UNCHANGED <<captures, tipVars, modelVars, errorVars>>

\* 'Retry' of the alert or 'Retry Permission' of the error screen
RetryPermission ==
    /\ route = "camera"
    /\ permission = "idle"
    /\ showPermissionError
    /\ permission' = "requesting"
    /\ alert' = NoAlert
    /\ UNCHANGED <<hasPermission, cameraRef, isInferencing, lastInferenceTime,
                   detectionResult, inferenceErrors, lowLightWarning,
                   noDetectionCount, isCapturing, showPermissionError, timer,
                   flights, lowLightTimers, route, now,
                   lowRun, failRun, lastEvent>>
    /\ UNCHANGED <<captures, tipVars, modelVars, errorVars>>

\* router.back() from the error screen or from an alert's button: the screen
\* unmounts, the effect's cleanup clears the interval, the session is over.
GoBack ==
    /\ route = "camera"
    /\ showPermissionError \/ alert \in {AlertPermission, AlertDetectionError}
    /\ route' = "back"
    /\ timer' = NoTimer
    /\ alert' = NoAlert
    /\ UNCHANGED <<hasPermission, cameraRef, isInferencing, lastInferenceTime,
                   detectionResult, inferenceErrors, lowLightWarning,
                   noDetectionCount, isCapturing, showPermissionError,
                   flights, lowLightTimers, permission, now,
                   lowRun, failRun, lastEvent>>
    /\ UNCHANGED <<captures, tipVars, modelVars, errorVars>>

-----------------------------------------------------------------------------
(* Periodic inference: scheduleInference (camera.tsx:119-173).             *)

Min(a, b) == IF a < b THEN a ELSE b

\* a timeout or timer due at time d fires before the next timer tick
DueBeforeNextTick(d) == d < now + INFERENCE_INTERVAL

\* the two early returns of scheduleInference (camera.tsx:122-130), evaluated
\* on the values the calling closure holds
SkipsInference(currentTime, closure) ==
    \/ closure.isInferencing
    \/ (currentTime - closure.lastInferenceTime) < INFERENCE_INTERVAL
    \/ closure.cameraRef = "null"
    \/ closure.isCapturing

\* The interval fires (camera.tsx:65-67).  The callback runs the
\* scheduleInference of the effect's render up to its first await
\* (camera.tsx:120-148): the guards, setIsInferencing(true),
\* setLastInferenceTime(currentTime), takePictureAsync.  Without a running
\* interval only the clock moves.  The callback reads Date.now() (currentTime,
\* camera.tsx:120) `lateness` after the time the interval was due.
TimerFires(lateness) ==
    /\ route = "camera"
    /\ now < MaxTime
    /\ \A f \in flights : ~DueBeforeNextTick(f.deadline)
    /\ \A d \in lowLightTimers : ~DueBeforeNextTick(d)
    /\ now' = now + INFERENCE_INTERVAL
    /\ IF timer.active /\ ~SkipsInference(now' + lateness, timer.closure)
       THEN /\ Cardinality(flights) < MaxInFlight
            /\ isInferencing' = TRUE
            /\ lastInferenceTime' = now' + lateness
            /\ flights' = flights \cup
                   {[deadline |-> now' + lateness + INFERENCE_TIMEOUT,
                     closure |-> timer.closure]}
       ELSE UNCHANGED <<isInferencing, lastInferenceTime, flights>>
    /\ alert' = NoAlert
    /\ UNCHANGED <<hasPermission, cameraRef, detectionResult, inferenceErrors,
                   lowLightWarning, noDetectionCount, isCapturing,
                   showPermissionError, timer, lowLightTimers, permission,
                   route, lowRun, failRun, lastEvent>>
    /\ UNCHANGED <<captures, tipVars, modelVars, errorVars>>

\* the callback runs when the interval is due
Tick == TimerFires(0)

\* the callback runs MaxLateness after the interval was due, the JavaScript
\* thread having been busy; the interval itself stays on its grid
LateTick == TimerFires(MaxLateness)

\* history of the run of sub-threshold results: counted from the session
\* start or from the last result at or above the display threshold, Broken
\* once anything else (a middle-band result, an error) came in between
NextLowRun(confidence) ==
    IF confidence >= CONFIDENCE_DISPLAY_THRESHOLD THEN 0
    ELSE IF confidence >= LOW_CONFIDENCE_THRESHOLD \/ lowRun = Broken THEN Broken
    ELSE Min(lowRun + 1, MaxRun + 1)

\* Both awaited races were won by the work (camera.tsx:148, 152): the try
\* block after the second await (camera.tsx:154-158) and the finally
\* (camera.tsx:170-172), for the flow f whose classifyImage resolved with
\* result.  A flow is suspended at the first or at the second await; the
\* step from one to the other changes no state and is not kept apart.
InferenceReturns(f, result) ==
    LET handled == handleDetectionResult(result, f.closure.noDetectionCount)
    IN  /\ inferenceErrors' = 0
        /\ detectionResult' = handled.detectionResult
        /\ noDetectionCount' =
               IF handled.setNoDetectionCount = <<>>
               THEN noDetectionCount
               ELSE Last(handled.setNoDetectionCount)
        /\ lowLightWarning' =
               CASE handled.lowLight = "raise" -> TRUE
                 [] handled.lowLight = "clear" -> FALSE
                 [] OTHER -> lowLightWarning
        /\ lowLightTimers' =
               IF handled.lowLight = "raise"
               THEN lowLightTimers \cup {now + LOW_LIGHT_CLEAR_DELAY}
               ELSE lowLightTimers
        /\ isInferencing' = FALSE
        /\ flights' = flights \ {f}
        /\ lowRun' = NextLowRun(result.confidence)
        /\ failRun' = 0
        /\ lastEvent' = [kind |-> "result", result |-> result,
                         message |-> NoMessage,
                         countBefore |-> noDetectionCount,
                         lowLight |-> handled.lowLight, alert |-> NoAlert]
        /\ alert' = NoAlert
        /\ UNCHANGED <<hasPermission, cameraRef, lastInferenceTime, isCapturing,
                       showPermissionError, timer, permission, route, now>>
        /\ UNCHANGED <<captures, tipVars, modelVars, errorVars>>

ClassifyResolves ==
    /\ route = "camera"
    /\ \E f \in flights, result \in Results : InferenceReturns(f, result)

\* the error path with the finally block of camera.tsx:170-172 left out
InferenceThrows_NoFinally(f, message) ==
    LET newErrorCount == f.closure.inferenceErrors + 1
        handled == handleInferenceError(message, newErrorCount)
    IN  /\ inferenceErrors' = newErrorCount
        /\ detectionResult' = handled.detectionResult
        /\ alert' = handled.alert
        /\ isInferencing' = isInferencing
        /\ flights' = flights \ {f}
        /\ lowRun' = Broken
        /\ failRun' = Min(failRun + 1, MaxRun + 1)
        /\ lastEvent' = [kind |-> "error", result |-> NoEvent.result,
                         message |-> message,
                         countBefore |-> noDetectionCount,
                         lowLight |-> "keep", alert |-> handled.alert]
        /\ UNCHANGED <<hasPermission, cameraRef, lastInferenceTime,
                       lowLightWarning, noDetectionCount, isCapturing,
                       showPermissionError, timer, lowLightTimers, permission,
                       route, now>>
        /\ UNCHANGED <<captures, tipVars, modelVars, errorVars>>

\* The catch block (camera.tsx:160-168) and the finally (camera.tsx:170-172),
\* for the flow f that ended with an Error carrying message.
InferenceThrows(f, message) ==
    LET newErrorCount == f.closure.inferenceErrors + 1
        handled == handleInferenceError(message, newErrorCount)
    IN  /\ inferenceErrors' = newErrorCount
        /\ detectionResult' = handled.detectionResult
        /\ alert' = handled.alert
        /\ isInferencing' = FALSE
        /\ flights' = flights \ {f}
        /\ lowRun' = Broken
        /\ failRun' = Min(failRun + 1, MaxRun + 1)
        /\ lastEvent' = [kind |-> "error", result |-> NoEvent.result,
                         message |-> message,
                         countBefore |-> noDetectionCount,
                         lowLight |-> "keep", alert |-> handled.alert]
        /\ UNCHANGED <<hasPermission, cameraRef, lastInferenceTime,
                       lowLightWarning, noDetectionCount, isCapturing,
                       showPermissionError, timer, lowLightTimers, permission,
                       route, now>>
        /\ UNCHANGED <<captures, tipVars, modelVars, errorVars>>

\* takePictureAsync rejects
CaptureRejects ==
    /\ route = "camera"
    /\ \E f \in flights, message \in CaptureErrorMessages : InferenceThrows(f, message)

\* the setTimeout of camera.tsx:133-135 rejects the race the flow is awaiting
InferenceTimesOut ==
    /\ route = "camera"
    /\ \E f \in flights :
         /\ DueBeforeNextTick(f.deadline)
         /\ InferenceThrows(f, MsgInferenceTimeout)

\* setTimeout(() => setLowLightWarning(false), 3000) of camera.tsx:205 fires
LowLightTimerFires ==
    /\ route = "camera"
    /\ \E d \in lowLightTimers :
         /\ DueBeforeNextTick(d)
         /\ lowLightTimers' = lowLightTimers \ {d}
    /\ lowLightWarning' = FALSE
    /\ alert' = NoAlert
    /\ UNCHANGED <<hasPermission, cameraRef, isInferencing, lastInferenceTime,
                   detectionResult, inferenceErrors, noDetectionCount,
                   isCapturing, showPermissionError, timer, flights,
                   permission, route, now, lowRun, failRun,
                   lastEvent>>
    /\ UNCHANGED <<captures, tipVars, modelVars, errorVars>>

-----------------------------------------------------------------------------
(* User capture: handleCapture (camera.tsx:274-311), called from the       *)
(* capture button of the current render.                                   *)

\* handleCapture with the isCapturing test of camera.tsx:275 left out
PressCapture_IgnoresCapturing ==
    /\ route = "camera"
    /\ cameraRef = "camera"
    /\ isCapturing' = TRUE
    /\ captures' = captures + 1
    /\ alert' = NoAlert
    /\ UNCHANGED <<hasPermission, cameraRef, isInferencing, lastInferenceTime,
                   detectionResult, inferenceErrors, lowLightWarning,
                   noDetectionCount, showPermissionError, timer, flights,
                   lowLightTimers, permission, route, now, lowRun,
                   failRun, lastEvent>>
    /\ UNCHANGED <<tipVars, modelVars, errorVars>>

\* the capture button is pressed with a camera and no capture in progress;
\* any other press returns at camera.tsx:275-277 and changes nothing
PressCapture ==
    /\ route = "camera"
    /\ cameraRef = "camera"
    /\ ~isCapturing
    /\ isCapturing' = TRUE
    /\ captures' = captures + 1
    /\ alert' = NoAlert
    /\ UNCHANGED <<hasPermission, cameraRef, isInferencing, lastInferenceTime,
                   detectionResult, inferenceErrors, lowLightWarning,
                   noDetectionCount, showPermissionError, timer, flights,
                   lowLightTimers, permission, route, now, lowRun,
                   failRun, lastEvent>>
    /\ UNCHANGED <<tipVars, modelVars, errorVars>>

\* takePictureAsync (or classifyImage) rejects: catch and finally
\* (camera.tsx:301-310)
CapturePhotoRejects ==
    /\ route = "camera"
    /\ captures > 0
    /\ captures' = captures - 1
    /\ alert' = AlertCaptureError
    /\ isCapturing' = FALSE
    /\ UNCHANGED <<hasPermission, cameraRef, isInferencing, lastInferenceTime,
                   detectionResult, inferenceErrors, lowLightWarning,
                   noDetectionCount, showPermissionError, timer, flights,
                   lowLightTimers, permission, route, now, lowRun, failRun,
                   lastEvent>>
    /\ UNCHANGED <<tipVars, modelVars, errorVars>>

\* takePictureAsync and classifyImage resolve: router.push('/results') and
\* finally (camera.tsx:283-299, 308-310); the scanning session ends here
CaptureClassified ==
    /\ route = "camera"
    /\ captures > 0
    /\ captures' = captures - 1
    /\ route' = "results"
    /\ isCapturing' = FALSE
    /\ alert' = NoAlert
    /\ UNCHANGED <<hasPermission, cameraRef, isInferencing, lastInferenceTime,
                   detectionResult, inferenceErrors, lowLightWarning,
                   noDetectionCount, showPermissionError, timer, flights,
                   lowLightTimers, permission, now, lowRun, failRun,
                   lastEvent>>
    /\ UNCHANGED <<tipVars, modelVars, errorVars>>

Next ==
    \/ PermissionGranted
    \/ PermissionDenied
    \/ PermissionThrows
    \/ RetryPermission
    \/ GoBack
    \/ Tick
    \/ ClassifyResolves
    \/ CaptureRejects
    \/ InferenceTimesOut
    \/ LowLightTimerFires

\* the camera session driven by the permission dialog and the interval timer
Spec == Init /\ [][Next]_vars

\* one result of each confidence band and one capture error: how a flow
\* ends does not depend on the category or on the wording of the error
BandResults == {[category |-> "Trash", confidence |-> c] : c \in {0, 10, 30}}

BandResolves ==
    /\ route = "camera"
    /\ \E f \in flights, result \in BandResults : InferenceReturns(f, result)

NotReadyRejects ==
    /\ route = "camera"
    /\ \E f \in flights : InferenceThrows(f, MsgCameraNotReady)

\* A suspended scheduleInference is resumed: each of its awaits races the
\* work against the setTimeout of camera.tsx:133-135, so the race settles
\* with the result, with the work's error or with the timeout's.
RaceSettles == BandResolves \/ NotReadyRejects \/ InferenceTimesOut

LiveNext ==
    \/ PermissionGranted
    \/ PermissionDenied
    \/ PermissionThrows
    \/ RetryPermission
    \/ GoBack
    \/ Tick
    \/ BandResolves
    \/ NotReadyRejects
    \/ InferenceTimesOut
    \/ LowLightTimerFires

\* the periodic inference, every pending race settling in the end
LiveSpec == Init /\ [][LiveNext]_vars /\ WF_vars(RaceSettles)

\* the session with the user pressing the capture button
SessionNext ==
    \/ PermissionGranted
    \/ PermissionDenied
    \/ PermissionThrows
    \/ RetryPermission
    \/ GoBack
    \/ Tick
    \/ BandResolves
    \/ NotReadyRejects
    \/ InferenceTimesOut
    \/ LowLightTimerFires
    \/ PressCapture
    \/ CapturePhotoRejects
    \/ CaptureClassified

SessionSpec == Init /\ [][SessionNext]_vars

\* the periodic inference with timer callbacks that may run late
JitterNext == Next \/ LateTick

JitterSpec == Init /\ [][JitterNext]_vars

-----------------------------------------------------------------------------
(* Properties of the camera session.                                       *)

ResultHandled == lastEvent.kind = "result"
ErrorHandled == lastEvent.kind = "error"
HandledConfidence == lastEvent.result.confidence
HandledCategory == lastEvent.result.category
NoDetectionFamily == {LabelNoClearObject, LabelHelp}

\* C1: in an uninterrupted run of sub-0.1 periodic results that starts with
\* the counter fresh, results 1 to 4 show 'No clear object detected', the 5th
\* shows the help message and leaves the counter at 0, and the 6th shows the
\* plain label again with the counter at 1.
C1_EscalationOnFifthResult ==
    (ResultHandled /\ HandledConfidence < LOW_CONFIDENCE_THRESHOLD) =>
        /\ lowRun \in 1..4 =>
               /\ detectionResult.category = LabelNoClearObject
               /\ ~detectionResult.isHelpMessage
        /\ lowRun = NO_DETECTION_THRESHOLD =>
               /\ detectionResult.category = LabelHelp
               /\ detectionResult.isHelpMessage
               /\ noDetectionCount = 0
        /\ lowRun = NO_DETECTION_THRESHOLD + 1 =>
               /\ detectionResult.category = LabelNoClearObject
               /\ ~detectionResult.isHelpMessage
               /\ noDetectionCount = 1

\* C2: a result with confidence below 0.1 is displayed with a label of the
\* no-detection family, never with the category the classifier returned.
C2_LowConfidenceShowsNoDetection ==
    (ResultHandled /\ HandledConfidence < LOW_CONFIDENCE_THRESHOLD) =>
        /\ detectionResult.category \in NoDetectionFamily
        /\ detectionResult.category # HandledCategory
        /\ detectionResult.confidence = HandledConfidence

C2_Witness ==
    /\ ResultHandled
    /\ HandledConfidence = 5
    /\ HandledCategory = "Recyclable"
    /\ detectionResult.category = LabelNoClearObject

\* C3: a result with confidence of 0.3 or more is displayed with the
\* classifier's category verbatim, isLowConfidence and isHelpMessage unset.
C3_DisplayWorthyShowsCategory ==
    (ResultHandled /\ HandledConfidence >= CONFIDENCE_DISPLAY_THRESHOLD) =>
        /\ detectionResult.category = HandledCategory
        /\ detectionResult.confidence = HandledConfidence
        /\ ~detectionResult.isLowConfidence
        /\ ~detectionResult.isHelpMessage

C3_Witness ==
    /\ ResultHandled
    /\ HandledConfidence = CONFIDENCE_DISPLAY_THRESHOLD
    /\ detectionResult.category = "Trash"

\* C4: a result with confidence in [0.1, 0.3) is displayed as 'Possible '
\* followed by the classifier's category, with isLowConfidence set.
C4_MiddleBandShowsPossible ==
    (/\ ResultHandled
     /\ HandledConfidence >= LOW_CONFIDENCE_THRESHOLD
     /\ HandledConfidence < CONFIDENCE_DISPLAY_THRESHOLD) =>
        /\ detectionResult.category = "Possible " \o HandledCategory
        /\ detectionResult.isLowConfidence

C4_Witness ==
    /\ ResultHandled
    /\ HandledConfidence = 29
    /\ detectionResult.category = "Possible Compostable"
    /\ detectionResult.isLowConfidence

\* C5 as stated: confidence exactly 0.3 shows the category, and confidence
\* exactly 0.1 shows 'No clear object detected' without the low-light warning.
C5_TieBreakAsStated ==
    ResultHandled =>
        /\ HandledConfidence = CONFIDENCE_DISPLAY_THRESHOLD =>
               detectionResult.category = HandledCategory
        /\ HandledConfidence = LOW_CONFIDENCE_THRESHOLD =>
               /\ detectionResult.category = LabelNoClearObject
               /\ lastEvent.lowLight # "raise"

\* C5 amended: confidence exactly 0.3 shows the category; confidence exactly
\* 0.1 falls in the middle band: it shows 'Possible <category>' with
\* isLowConfidence, does not raise the low-light warning and leaves the
\* no-detection counter alone.
C5_TieBreak ==
    ResultHandled =>
        /\ HandledConfidence = CONFIDENCE_DISPLAY_THRESHOLD =>
               /\ detectionResult.category = HandledCategory
               /\ ~detectionResult.isLowConfidence
        /\ HandledConfidence = LOW_CONFIDENCE_THRESHOLD =>
               /\ detectionResult.category = "Possible " \o HandledCategory
               /\ detectionResult.isLowConfidence
               /\ lastEvent.lowLight = "keep"
               /\ noDetectionCount = lastEvent.countBefore

C5_Witness ==
    /\ ResultHandled
    /\ HandledConfidence = LOW_CONFIDENCE_THRESHOLD
    /\ detectionResult.category = "Possible Trash"
    /\ lastEvent.countBefore = 1

\* C6: a result with confidence of 0.3 or more leaves the no-detection
\* counter at 0, whatever it was before.
C6_DisplayWorthyResetsCounter ==
    (ResultHandled /\ HandledConfidence >= CONFIDENCE_DISPLAY_THRESHOLD) =>
        noDetectionCount = 0

C6_Witness ==
    /\ ResultHandled
    /\ HandledConfidence >= CONFIDENCE_DISPLAY_THRESHOLD
    /\ lastEvent.countBefore > 0
    /\ noDetectionCount = 0

\* C7: inferenceErrors is the number of periodic inferences that failed since
\* the last one that returned a result.
C7_ErrorCounterCountsFailures ==
    failRun <= MaxRun => inferenceErrors = failRun

\* C8: an inference error raises the 'Detection Error' alert exactly when it is
\* at least the 3rd failure in a row and its category is non-recoverable.
C8_AlertIffPersistentNonRecoverable ==
    (ErrorHandled /\ failRun <= MaxRun) =>
        ((lastEvent.alert = AlertDetectionError) <=>
            (/\ failRun >= MAX_INFERENCE_ERRORS
             /\ ~ErrorCategory(lastEvent.message).isRecoverable))

-----------------------------------------------------------------------------
(* The tip generator (lib/utils/tipGenerator.js, used by app/results.tsx;  *)
(* src/utils/tipGenerator.js, the earlier version of the same utility).    *)

RandomDenom == 7    \* Math.random() returns tipRandom / RandomDenom

LowerCaseLetters == <<"a","b","c","d","e","f","g","h","i","j","k","l","m",
                      "n","o","p","q","r","s","t","u","v","w","x","y","z">>
UpperCaseLetters == <<"A","B","C","D","E","F","G","H","I","J","K","L","M",
                      "N","O","P","Q","R","S","T","U","V","W","X","Y","Z">>

UpperChar(c) ==
    IF \E i \in 1..26 : LowerCaseLetters[i] = c
    THEN UpperCaseLetters[CHOOSE i \in 1..26 : LowerCaseLetters[i] = c]
    ELSE c

LowerChar(c) ==
    IF \E i \in 1..26 : UpperCaseLetters[i] = c
    THEN LowerCaseLetters[CHOOSE i \in 1..26 : UpperCaseLetters[i] = c]
    ELSE c

\* String.prototype.toUpperCase / toLowerCase
toUpperCase(s) == [i \in 1..Len(s) |-> UpperChar(s[i])]
toLowerCase(s) == [i \in 1..Len(s) |-> LowerChar(s[i])]

\* String.prototype.charAt(0) and slice(1)
charAt0(s) == SubSeq(s, 1, 1)
slice1(s) == SubSeq(s, 2, Len(s))

\* String.prototype.replace(sub, ''): the first occurrence of sub is removed
ReplaceFirstWithEmpty(s, sub) ==
    IF Includes(s, sub)
    THEN LET i == CHOOSE k \in 1..(Len(s) - Len(sub) + 1) :
                      /\ SubSeq(s, k, k + Len(sub) - 1) = sub
                      /\ \A j \in 1..(k - 1) : SubSeq(s, j, j + Len(sub) - 1) # sub
         IN  SubSeq(s, 1, i - 1) \o SubSeq(s, i + Len(sub), Len(s))
    ELSE s

\* lib/utils/tipGenerator.js:11-73 (the em dash of the texts is written --)
tipTemplates == <<
    [key |-> <<"R","e","c","y","c","l","a","b","l","e">>,
     tips |-> <<
        "Recycle this plastic bottle to save energy--repurpose it as a vase or storage container!",
        "Great find! Recycling this aluminum can saves 95% of the energy needed to make a new one.",
        "This cardboard can be recycled up to 7 times--flatten it first to save space in your recycling bin.",
        "Paper recycling tip: Remove any plastic tape or staples before putting this in your recycling bin.",
        "Glass containers like this can be recycled endlessly without losing quality--rinse it clean first!",
        "Plastic containers are perfect for organizing small items after you recycle the original contents.",
        "Metal items like this are highly valuable to recyclers--clean it and put it in your metal recycling bin."
     >>],
    [key |-> <<"C","o","m","p","o","s","t","a","b","l","e">>,
     tips |-> <<
        "Add this organic waste to your compost bin--it'll become nutrient-rich soil in 3-6 months!",
        "Food scraps like this create methane in landfills, but composting them helps reduce greenhouse gases.",
        "Perfect for composting! Mix with brown materials like dry leaves for the best decomposition.",
        "This organic material will feed beneficial microorganisms in your compost pile--nature's recycling!",
        "Composting this item returns valuable nutrients to the soil instead of wasting them in a landfill.",
        "Great compost material! Chop it into smaller pieces to speed up the decomposition process.",
        "This biodegradable item belongs in your green waste bin or home compost--it'll break down naturally!"
     >>],
    [key |-> <<"T","r","a","s","h">>,
     tips |-> <<
        "This item goes to trash, but consider buying less packaging next time to reduce waste.",
        "Non-recyclable waste like this reminds us to choose reusable alternatives when possible.",
        "While this goes in the trash, look for similar products with less packaging in the future.",
        "This belongs in your general waste bin--try to minimize items like this by choosing sustainable alternatives.",
        "Trash disposal tip: Wrap this securely to prevent litter and consider eco-friendly alternatives next time.",
        "This item can't be recycled, but you can reduce future waste by choosing products with minimal packaging."
     >>],
    [key |-> <<"U","n","k","n","o","w","n">>,
     tips |-> <<
        "I'm not sure about this item--check your local recycling guidelines or ask your waste management provider.",
        "When in doubt, research this item online or contact your local environmental services for proper disposal.",
        "This item needs manual inspection--look for recycling symbols or check with your local waste facility.",
        "Try scanning again with better lighting or a clearer view of the item for more accurate results.",
        "If the item is unclear, clean it first and scan again, or check the packaging for disposal instructions."
     >>],
    [key |-> <<"D","e","t","e","c","t","i","o","n"," ","e","r","r","o","r">>,
     tips |-> <<
        "Scanning had an issue--try again with better lighting and a steady hand.",
        "Technical error occurred--ensure good lighting and try scanning the item again.",
        "Detection failed--clean the camera lens and try scanning in better light conditions."
     >>],
    [key |-> <<"N","o"," ","c","l","e","a","r"," ","o","b","j","e","c","t"," ","d","e","t","e","c","t","e","d">>,
     tips |-> <<
        "Try moving the camera closer to the item and ensure it's well-lit for better detection.",
        "Make sure the item fills most of the camera frame and try scanning again.",
        "Improve lighting conditions and hold the camera steady for clearer object detection."
     >>],
    [key |-> <<"T","r","y"," ","a","d","j","u","s","t","i","n","g"," ","c","a","m","e","r","a"," ","a","n","g","l","e"," ","o","r"," ","l","i","g","h","t","i","n","g">>,
     tips |-> <<
        "Better lighting and camera angle will help identify this item more accurately.",
        "Move to a well-lit area and try different angles to get a clearer scan of the item.",
        "Clean lighting and a steady camera position will improve waste classification results."
     >>],
    [key |-> <<"L","o","w"," ","l","i","g","h","t"," ","d","e","t","e","c","t","e","d">>,
     tips |-> <<
        "Low light affects scanning accuracy--try moving to a brighter area for better results.",
        "Good lighting is key for accurate waste classification--find a well-lit spot and try again.",
        "Bright, even lighting helps the AI identify waste items more accurately."
     >>]
>>

\* src/utils/tipGenerator.js:11-46
srcTipTemplates == <<
    [key |-> <<"R","e","c","y","c","l","a","b","l","e">>,
     tips |-> <<
        "Recycle this plastic bottle to save energy--repurpose it as a vase or storage container!",
        "Great find! Recycling this aluminum can saves 95% of the energy needed to make a new one.",
        "This cardboard can be recycled up to 7 times--flatten it first to save space in your recycling bin.",
        "Paper recycling tip: Remove any plastic tape or staples before putting this in your recycling bin.",
        "Glass containers like this can be recycled endlessly without losing quality--rinse it clean first!",
        "Plastic containers are perfect for organizing small items after you recycle the original contents.",
        "Metal items like this are highly valuable to recyclers--clean it and put it in your metal recycling bin."
     >>],
    [key |-> <<"C","o","m","p","o","s","t","a","b","l","e">>,
     tips |-> <<
        "Add this organic waste to your compost bin--it'll become nutrient-rich soil in 3-6 months!",
        "Food scraps like this create methane in landfills, but composting them helps reduce greenhouse gases.",
        "Perfect for composting! Mix with brown materials like dry leaves for the best decomposition.",
        "This organic material will feed beneficial microorganisms in your compost pile--nature's recycling!",
        "Composting this item returns valuable nutrients to the soil instead of wasting them in a landfill.",
        "Great compost material! Chop it into smaller pieces to speed up the decomposition process.",
        "This biodegradable item belongs in your green waste bin or home compost--it'll break down naturally!"
     >>],
    [key |-> <<"T","r","a","s","h">>,
     tips |-> <<
        "This item goes to trash, but consider buying less packaging next time to reduce waste.",
        "Non-recyclable waste like this reminds us to choose reusable alternatives when possible.",
        "While this goes in the trash, look for similar products with less packaging in the future.",
        "This belongs in your general waste bin--try to minimize items like this by choosing sustainable alternatives.",
        "Trash disposal tip: Wrap this securely to prevent litter and consider eco-friendly alternatives next time.",
        "This item can't be recycled, but you can reduce future waste by choosing products with minimal packaging."
     >>],
    [key |-> <<"U","n","k","n","o","w","n">>,
     tips |-> <<
        "I'm not sure about this item--check your local recycling guidelines or ask your waste management provider.",
        "When in doubt, research this item online or contact your local environmental services for proper disposal.",
        "This item needs manual inspection--look for recycling symbols or check with your local waste facility."
     >>]
>>

\* Properties every object literal inherits from Object.prototype: the
\* functions with their declared number of parameters, and __proto__ itself
ObjectPrototype == {
    [key |-> <<"c","o","n","s","t","r","u","c","t","o","r">>, kind |-> "function", length |-> 1],
    [key |-> <<"t","o","S","t","r","i","n","g">>, kind |-> "function", length |-> 0],
    [key |-> <<"v","a","l","u","e","O","f">>, kind |-> "function", length |-> 0],
    [key |-> <<"h","a","s","O","w","n","P","r","o","p","e","r","t","y">>, kind |-> "function", length |-> 1],
    [key |-> <<"_","_","p","r","o","t","o","_","_">>, kind |-> "object", length |-> 0] }

Undefined == [kind |-> "undefined", tips |-> <<>>, length |-> 0]

\* templates[key]: an own property (a tip array), an inherited one, or undefined
Property(templates, key) ==
    IF \E i \in DOMAIN templates : templates[i].key = key
    THEN LET tips == templates[CHOOSE i \in DOMAIN templates : templates[i].key = key].tips
         IN  [kind |-> "array", tips |-> tips, length |-> Len(tips)]
    ELSE IF \E p \in ObjectPrototype : p.key = key
    THEN LET p == CHOOSE q \in ObjectPrototype : q.key = key
         IN  [kind |-> p.kind, tips |-> <<>>, length |-> p.length]
    ELSE Undefined

\* arrays, functions and objects are truthy, undefined is not
Truthy(value) == value.kind # "undefined"

\* values generateTip can hand back
StringValue(text) == [kind |-> "string", text |-> text]
UndefinedValue == [kind |-> "undefined", text |-> ""]
RangeError == [kind |-> "throws", text |-> "RangeError: Maximum call stack size exceeded"]

\* categoryTips[Math.floor(Math.random() * categoryTips.length)].  A function
\* has a length but no indexed element; Object.prototype has no length, the
\* index is NaN: both reads give undefined.
RandomTip(categoryTips, random) ==
    IF categoryTips.kind = "array"
    THEN StringValue(categoryTips.tips[((random * categoryTips.length) \div RandomDenom) + 1])
    ELSE UndefinedValue

\* value + suffix
Plus(value, suffix) ==
    CASE value.kind = "string" -> StringValue(value.text \o suffix)
      [] value.kind = "undefined" -> StringValue("undefined" \o suffix)
      [] OTHER -> value

KeyUnknown == <<"U","n","k","n","o","w","n">>
KeyDetectionError == <<"D","e","t","e","c","t","i","o","n"," ","e","r","r","o","r">>
KeyNoClearObject == <<"N","o"," ","c","l","e","a","r"," ","o","b","j","e","c","t"," ","d","e","t","e","c","t","e","d">>
KeyAdjust == <<"T","r","y"," ","a","d","j","u","s","t","i","n","g"," ","c","a","m","e","r","a"," ","a","n","g","l","e"," ","o","r"," ","l","i","g","h","t","i","n","g">>
LowConfidenceSuffix == " (Low confidence - consider scanning again for better results.)"


\* arguments that are no strings, each written as its type in a one-element
\* sequence (no character of a key is longer than one letter)
NonStrings == {<<"null">>, <<"undefined">>, <<"number">>, <<"object">>}

\* !category || typeof category !== 'string'
InvalidCategory(category) == category = <<>> \/ category \in NonStrings

\* generateTip with the letter-case normalisation of tipGenerator.js:127 left out
RECURSIVE generateTip_NoNormalize(_, _)
generateTip_NoNormalize(category, random) ==
    IF InvalidCategory(category)
    THEN StringValue(Property(tipTemplates, KeyUnknown).tips[1])
    ELSE IF Truthy(Property(tipTemplates, category))
    THEN RandomTip(Property(tipTemplates, category), random)
    ELSE IF \/ Includes(category, <<"e","r","r","o","r">>)
            \/ Includes(category, <<"E","r","r","o","r">>)
    THEN RandomTip(Property(tipTemplates, KeyDetectionError), random)
    ELSE IF \/ Includes(category, <<"N","o"," ","c","l","e","a","r"," ","o","b","j","e","c","t">>)
            \/ Includes(category, <<"n","o"," ","c","l","e","a","r"," ","o","b","j","e","c","t">>)
    THEN RandomTip(Property(tipTemplates, KeyNoClearObject), random)
    ELSE IF \/ Includes(category, <<"a","d","j","u","s","t","i","n","g">>)
            \/ Includes(category, <<"l","i","g","h","t","i","n","g">>)
    THEN RandomTip(Property(tipTemplates, KeyAdjust), random)
    ELSE IF Includes(category, <<"P","o","s","s","i","b","l","e">>)
    THEN LET baseCategory ==
                 ReplaceFirstWithEmpty(category, <<"P","o","s","s","i","b","l","e"," ">>)
         IN  IF baseCategory = category
             THEN RangeError
             ELSE Plus(generateTip_NoNormalize(baseCategory, random), LowConfidenceSuffix)
    ELSE LET normalizedCategory == category
             categoryTips ==
                 IF Truthy(Property(tipTemplates, normalizedCategory))
                 THEN Property(tipTemplates, normalizedCategory)
                 ELSE Property(tipTemplates, KeyUnknown)
         IN  RandomTip(categoryTips, random)

\* generateTip with the caveat of tipGenerator.js:123 not appended
RECURSIVE generateTip_NoCaveat(_, _)
generateTip_NoCaveat(category, random) ==
    IF InvalidCategory(category)
    THEN StringValue(Property(tipTemplates, KeyUnknown).tips[1])
    ELSE IF Truthy(Property(tipTemplates, category))
    THEN RandomTip(Property(tipTemplates, category), random)
    ELSE IF \/ Includes(category, <<"e","r","r","o","r">>)
            \/ Includes(category, <<"E","r","r","o","r">>)
    THEN RandomTip(Property(tipTemplates, KeyDetectionError), random)
    ELSE IF \/ Includes(category, <<"N","o"," ","c","l","e","a","r"," ","o","b","j","e","c","t">>)
            \/ Includes(category, <<"n","o"," ","c","l","e","a","r"," ","o","b","j","e","c","t">>)
    THEN RandomTip(Property(tipTemplates, KeyNoClearObject), random)
    ELSE IF \/ Includes(category, <<"a","d","j","u","s","t","i","n","g">>)
            \/ Includes(category, <<"l","i","g","h","t","i","n","g">>)
    THEN RandomTip(Property(tipTemplates, KeyAdjust), random)
    ELSE IF Includes(category, <<"P","o","s","s","i","b","l","e">>)
    THEN LET baseCategory ==
                 ReplaceFirstWithEmpty(category, <<"P","o","s","s","i","b","l","e"," ">>)
         IN  IF baseCategory = category
             THEN RangeError
             ELSE generateTip_NoCaveat(baseCategory, random)
    ELSE LET normalizedCategory == toUpperCase(charAt0(category)) \o toLowerCase(slice1(category))
             categoryTips ==
                 IF Truthy(Property(tipTemplates, normalizedCategory))
                 THEN Property(tipTemplates, normalizedCategory)
                 ELSE Property(tipTemplates, KeyUnknown)
         IN  RandomTip(categoryTips, random)

\* lib/utils/tipGenerator.js:88-135.  `random` is the one value Math.random()
\* returns on the path taken.  replace('Possible ', '') leaves a key that
\* holds 'Possible' without a following space as it is: the call then repeats
\* itself with the same argument until the stack is exhausted (RangeError).
RECURSIVE generateTip(_, _)
generateTip(category, random) ==
    IF InvalidCategory(category)
    THEN StringValue(Property(tipTemplates, KeyUnknown).tips[1])
    ELSE IF Truthy(Property(tipTemplates, category))
    THEN RandomTip(Property(tipTemplates, category), random)
    ELSE IF \/ Includes(category, <<"e","r","r","o","r">>)
            \/ Includes(category, <<"E","r","r","o","r">>)
    THEN RandomTip(Property(tipTemplates, KeyDetectionError), random)
    ELSE IF \/ Includes(category, <<"N","o"," ","c","l","e","a","r"," ","o","b","j","e","c","t">>)
            \/ Includes(category, <<"n","o"," ","c","l","e","a","r"," ","o","b","j","e","c","t">>)
    THEN RandomTip(Property(tipTemplates, KeyNoClearObject), random)
    ELSE IF \/ Includes(category, <<"a","d","j","u","s","t","i","n","g">>)
            \/ Includes(category, <<"l","i","g","h","t","i","n","g">>)
    THEN RandomTip(Property(tipTemplates, KeyAdjust), random)
    ELSE IF Includes(category, <<"P","o","s","s","i","b","l","e">>)
    THEN LET baseCategory ==
                 ReplaceFirstWithEmpty(category, <<"P","o","s","s","i","b","l","e"," ">>)
         IN  IF baseCategory = category
             THEN RangeError
             ELSE Plus(generateTip(baseCategory, random), LowConfidenceSuffix)
    ELSE LET normalizedCategory == toUpperCase(charAt0(category)) \o toLowerCase(slice1(category))
             categoryTips ==
                 IF Truthy(Property(tipTemplates, normalizedCategory))
                 THEN Property(tipTemplates, normalizedCategory)
                 ELSE Property(tipTemplates, KeyUnknown)
         IN  RandomTip(categoryTips, random)

\* src/utils/tipGenerator.js:61-76
srcGenerateTip(category, random) ==
    IF InvalidCategory(category)
    THEN StringValue(Property(srcTipTemplates, KeyUnknown).tips[1])
    ELSE LET normalizedCategory == toUpperCase(charAt0(category)) \o toLowerCase(slice1(category))
             categoryTips ==
                 IF Truthy(Property(srcTipTemplates, normalizedCategory))
                 THEN Property(srcTipTemplates, normalizedCategory)
                 ELSE Property(srcTipTemplates, KeyUnknown)
         IN  RandomTip(categoryTips, random)

-----------------------------------------------------------------------------
(* Calls of the tip generator.                                             *)

\* the four canonical categories (WASTE_CATEGORIES, src/utils/models.js)
CanonicalCategories == {
    <<"R","e","c","y","c","l","a","b","l","e">>,
    <<"C","o","m","p","o","s","t","a","b","l","e">>,
    <<"T","r","a","s","h">>,
    <<"U","n","k","n","o","w","n">> }

RECURSIVE CaseVariants(_)
\* every spelling of s that differs from it in letter case only
CaseVariants(s) ==
    IF s = <<>>
    THEN {<<>>}
    ELSE {<<c>> \o t : c \in {UpperChar(Head(s)), LowerChar(Head(s))},
                       t \in CaseVariants(Tail(s))}

\* the empty string, 'Possible ...' labels, error messages, pool keys, names
\* that are no pool key, names of inherited properties
OtherKeys == {
    <<>>,
    <<"P","o","s","s","i","b","l","e"," ","R","e","c","y","c","l","a","b","l","e">>,
    <<"P","o","s","s","i","b","l","e"," ","U","n","k","n","o","w","n">>,
    <<"P","o","s","s","i","b","l","e"," ","C","o","m","p","o","s","t","a","b","l","e">>,
    <<"P","o","s","s","i","b","l","e"," ","T","r","a","s","h">>,
    <<"P","o","s","s","i","b","l","e"," ","g","l","a","s","s">>,
    <<"P","o","s","s","i","b","l","e"," ","P","o","s","s","i","b","l","e">>,
    <<"P","o","s","s","i","b","l","e">>,
    <<"P","o","s","s","i","b","l","e","T","r","a","s","h">>,
    <<"P","o","s","s","i","b","l","e"," ","c","o","n","s","t","r","u","c","t","o","r">>,
    <<"s","o","m","e"," ","r","a","n","d","o","m"," ","e","r","r","o","r"," ","o","c","c","u","r","r","e","d">>,
    <<"N","e","t","w","o","r","k"," ","E","r","r","o","r">>,
    <<"N","E","T","W","O","R","K"," ","E","R","R","O","R">>,
    <<"N","o"," ","C","l","e","a","r"," ","O","b","j","e","c","t"," ","F","o","u","n","d">>,
    <<"B","a","d"," ","L","i","g","h","t","i","n","g">>,
    <<"k","e","e","p"," ","a","d","j","u","s","t","i","n","g">>,
    <<"D","e","t","e","c","t","i","o","n"," ","e","r","r","o","r">>,
    <<"N","o"," ","c","l","e","a","r"," ","o","b","j","e","c","t"," ","d","e","t","e","c","t","e","d">>,
    <<"n","o"," ","c","l","e","a","r"," ","o","b","j","e","c","t">>,
    <<"T","r","y"," ","a","d","j","u","s","t","i","n","g"," ","c","a","m","e","r","a"," ","a","n","g","l","e"," ","o","r"," ","l","i","g","h","t","i","n","g">>,
    <<"b","a","d"," ","l","i","g","h","t","i","n","g">>,
    <<"L","o","w"," ","l","i","g","h","t"," ","d","e","t","e","c","t","e","d">>,
    <<"P","l","a","s","t","i","c">>,
    <<"g","l","a","s","s"," ","b","o","t","t","l","e">>,
    <<"c","o","n","s","t","r","u","c","t","o","r">>,
    <<"t","o","S","t","r","i","n","g">>,
    <<"_","_","p","r","o","t","o","_","_">> }

TipKeys == UNION {CaseVariants(c) : c \in CanonicalCategories} \cup OtherKeys \cup NonStrings

TipInit ==
    /\ CameraInit
    /\ ModelIdle
    /\ ErrorIdle
    /\ tipImpl \in {"lib", "src"}
    /\ tipKey \in TipKeys
    /\ tipRandom \in 0..(RandomDenom - 1)
    /\ tipResult = NotCalled

\* app/results.tsx:92, const ecoTip = generateTip(category)
GenerateTipLib ==
    /\ tipImpl = "lib"
    /\ tipResult = NotCalled
    /\ tipResult' = generateTip(tipKey, tipRandom)
    /\ UNCHANGED <<cameraVars, modelVars, errorVars, tipImpl, tipKey, tipRandom>>

\* the same call against src/utils/tipGenerator.js
GenerateTipSrc ==
    /\ tipImpl = "src"
    /\ tipResult = NotCalled
    /\ tipResult' = srcGenerateTip(tipKey, tipRandom)
    /\ UNCHANGED <<cameraVars, modelVars, errorVars, tipImpl, tipKey, tipRandom>>

TipNext == GenerateTipLib \/ GenerateTipSrc

TipSpec == TipInit /\ [][TipNext]_vars

-----------------------------------------------------------------------------
(* Claims about the tip generator.                                         *)

\* the tip table of the implementation under evaluation
TemplatesInUse == IF tipImpl = "lib" THEN tipTemplates ELSE srcTipTemplates

TipReturned == tipResult # NotCalled

\* C9: generateTip returns a non-empty string and does not throw, for every
\* string key: the empty string, keys of the form 'Possible <anything>',
\* free-text error messages and names that are not tip-pool keys.
C9_TipIsNonEmptyStringForEveryKey ==
    TipReturned =>
        /\ tipResult.kind = "string"
        /\ tipResult.text # ""

\* C10: for each of the four canonical categories, spelled in any letter
\* case, generateTip returns one of the tips enumerated in that category's
\* own pool, whatever Math.random() returns.
C10_CanonicalCategoryGetsOwnTip ==
    \A c \in CanonicalCategories :
        (TipReturned /\ toLowerCase(tipKey) = toLowerCase(c)) =>
            LET pool == Property(TemplatesInUse, c).tips
            IN  /\ tipResult.kind = "string"
                /\ \E i \in 1..Len(pool) : tipResult.text = pool[i]

\* a category spelled in another letter case than the pool key got the last
\* tip of its own pool
C10_Witness ==
    /\ TipReturned
    /\ tipImpl = "lib"
    /\ tipKey = <<"r","E","C","Y","C","L","A","B","L","E">>
    /\ tipRandom = RandomDenom - 1
    /\ tipResult = StringValue(Last(Property(tipTemplates, <<"R","e","c","y","c","l","a","b","l","e">>).tips))

\* 'Possible ' + category, the label handleDetectionResult gives a result of
\* the middle band (camera.tsx:216), as a tip key
PossibleKey(c) == <<"P","o","s","s","i","b","l","e"," ">> \o c

\* C11: for every canonical category X, generateTip('Possible ' + X) of
\* lib/utils/tipGenerator.js returns a tip of X's pool followed by the caveat
\* ' (Low confidence - consider scanning again for better results.)'.
C11_PossibleCategoryGetsOwnTipWithCaveat ==
    \A c \in CanonicalCategories :
        (TipReturned /\ tipImpl = "lib" /\ tipKey = PossibleKey(c)) =>
            LET pool == Property(tipTemplates, c).tips
            IN  /\ tipResult.kind = "string"
                /\ \E i \in 1..Len(pool) : tipResult.text = pool[i] \o LowConfidenceSuffix

\* 'Possible Trash' got the last Trash tip with the caveat
C11_Witness ==
    /\ TipReturned
    /\ tipImpl = "lib"
    /\ tipKey = PossibleKey(<<"T","r","a","s","h">>)
    /\ tipRandom = RandomDenom - 1
    /\ tipResult = StringValue(Last(Property(tipTemplates, <<"T","r","a","s","h">>).tips)
                               \o " (Low confidence - consider scanning again for better results.)")

\* key is an own property of the tip table
IsPoolKey(templates, key) == \E i \in DOMAIN templates : templates[i].key = key

\* s contains sub, letter case ignored
IncludesIgnoringCase(s, sub) == Includes(toLowerCase(s), toLowerCase(sub))

\* the tip returned is a member of the pool stored under poolKey
TipFromPool(templates, poolKey) ==
    /\ tipResult.kind = "string"
    /\ \E i \in 1..Len(Property(templates, poolKey).tips) :
           tipResult.text = Property(templates, poolKey).tips[i]

\* C12: for a key that is no exact pool key, generateTip of
\* lib/utils/tipGenerator.js matches substrings without regard to letter
\* case: a key containing 'error' gets a 'Detection error' tip, else a key
\* containing 'no clear object' gets a 'No clear object detected' tip, else a
\* key containing 'adjusting' or 'lighting' gets a 'Try adjusting camera
\* angle or lighting' tip.
C12_SubstringRulesIgnoreCase ==
    (TipReturned /\ tipImpl = "lib" /\ ~IsPoolKey(tipTemplates, tipKey)) =>
        IF IncludesIgnoringCase(tipKey, <<"e","r","r","o","r">>)
        THEN TipFromPool(tipTemplates, KeyDetectionError)
        ELSE IF IncludesIgnoringCase(tipKey, <<"n","o"," ","c","l","e","a","r"," ","o","b","j","e","c","t">>)
        THEN TipFromPool(tipTemplates, KeyNoClearObject)
        ELSE IF \/ Includes(tipKey, <<"a","d","j","u","s","t","i","n","g">>)
                \/ Includes(tipKey, <<"l","i","g","h","t","i","n","g">>)
        THEN TipFromPool(tipTemplates, KeyAdjust)
        ELSE TRUE

\* no rule of generateTip before the fallback applies to key
MatchesNoRule(key) ==
    LET normalizedCategory == toUpperCase(charAt0(key)) \o toLowerCase(slice1(key))
    IN  /\ ~InvalidCategory(key)
        /\ ~IsPoolKey(TemplatesInUse, normalizedCategory)
        /\ tipImpl = "lib" =>
               /\ ~IsPoolKey(tipTemplates, key)
               /\ ~Includes(key, <<"e","r","r","o","r">>)
               /\ ~Includes(key, <<"E","r","r","o","r">>)
               /\ ~Includes(key, <<"N","o"," ","c","l","e","a","r"," ","o","b","j","e","c","t">>)
               /\ ~Includes(key, <<"n","o"," ","c","l","e","a","r"," ","o","b","j","e","c","t">>)
               /\ ~Includes(key, <<"a","d","j","u","s","t","i","n","g">>)
               /\ ~Includes(key, <<"l","i","g","h","t","i","n","g">>)
               /\ ~Includes(key, <<"P","o","s","s","i","b","l","e">>)

\* C13: generateTip falls back to the Unknown pool: a key that is empty or
\* no string gets the first Unknown tip, and a non-empty key that matches no
\* exact key, no substring rule, no 'Possible' pattern and no case-normalised
\* category gets a member of the Unknown pool.
C13_FallsBackToUnknownPool ==
    TipReturned =>
        /\ InvalidCategory(tipKey) =>
               tipResult = StringValue(Property(TemplatesInUse, KeyUnknown).tips[1])
        /\ MatchesNoRule(tipKey) => TipFromPool(TemplatesInUse, KeyUnknown)

-----------------------------------------------------------------------------
(* Claims about the scheduling of the periodic inference.                  *)

\* C14: at most one periodic inference is in flight at any time: a timer
\* tick that fires while an earlier periodic inference has not finished
\* starts no new one.
C14_AtMostOneInferenceInFlight == Cardinality(flights) <= 1

\* C15: inference throttling: two periodic inferences never start less than
\* INFERENCE_INTERVAL apart; a call of scheduleInference made sooner than
\* that after the start of the last inference starts none.  (Every start
\* records its time with setLastInferenceTime.)
C15_InferencesStartIntervalApart ==
    [][lastInferenceTime' # lastInferenceTime =>
           lastInferenceTime' - lastInferenceTime >= INFERENCE_INTERVAL]_vars

\* C16: the periodic inference runs only while camera permission is granted.
\* After a denial or an exception of requestCameraPermission hasPermission is
\* false and showPermissionError is true, the inference timer is not running
\* and no inference is started until a later request is granted; a granted
\* request sets hasPermission true and showPermissionError false.
C16_InferenceOnlyWithPermission ==
    /\ alert = AlertPermission => hasPermission = "false"
    /\ hasPermission = "false" <=> showPermissionError
    /\ hasPermission # "true" => (~timer.active /\ flights = {} /\ ~isInferencing)

\* permission was denied, the user retried, and no inference has started
\* while the clock went on for two intervals
C16_Witness ==
    /\ hasPermission = "false"
    /\ showPermissionError
    /\ permission = "requesting"
    /\ now >= StartTime + 2 * INFERENCE_INTERVAL
    /\ ~timer.active
    /\ flights = {}

-----------------------------------------------------------------------------
(* The classifier (src/utils/models.js; its later version with automatic   *)
(* model loading; lib/utils/models.mobile.js, the mock without TensorFlow).*)

CONFIDENCE_THRESHOLD == 50

MaxPredictions == 5     \* length of the longest prediction array explored

\* scores of a prediction array: just below the threshold, at the threshold,
\* and a logit above 1.0
Scores == {49, 50, 130}

PredictionArrays == UNION {[1..n -> Scores] : n \in 1..MaxPredictions}

\* WASTE_CATEGORIES, indexed from 0
WASTE_CATEGORIES(index) == <<"Recyclable", "Compostable", "Trash", "Unknown">>[index + 1]

\* Math.max(...array)
MathMax(array) == CHOOSE v \in {array[i] : i \in DOMAIN array} : \A i \in DOMAIN array : array[i] <= v

\* array.indexOf(v), counted from 0
indexOf(array, v) ==
    (CHOOSE i \in DOMAIN array : array[i] = v /\ \A j \in 1..(i - 1) : array[j] # v) - 1

\* what an async function hands its caller
Resolved(call, category, confidence, error) ==
    [call |-> call, outcome |-> "resolved", category |-> category,
     confidence |-> confidence, error |-> error]
Rejected(call, error) ==
    [call |-> call, outcome |-> "rejected", category |-> "", confidence |-> 0, error |-> error]

\* postprocessResults with the comparison of models.js:173 made inclusive
postprocessResults_InclusiveThreshold(predictionArray, dataThrows) ==
    IF dataThrows
    THEN Resolved("postprocessResults", "Unknown", 0, "predictions.data() failed")
    ELSE LET maxConfidenceIndex == indexOf(predictionArray, MathMax(predictionArray))
             maxConfidence == predictionArray[maxConfidenceIndex + 1]
             category ==
                 IF maxConfidence <= CONFIDENCE_THRESHOLD
                 THEN "Unknown"
                 ELSE WASTE_CATEGORIES(maxConfidenceIndex % 4)
         IN  Resolved("postprocessResults", category, Min(maxConfidence, 100), "")

\* models.js:160-206.  dataThrows: predictions.data() rejects, the catch
\* block returns the fallback result.
postprocessResults(predictionArray, dataThrows) ==
    IF dataThrows
    THEN Resolved("postprocessResults", "Unknown", 0, "predictions.data() failed")
    ELSE LET maxConfidenceIndex == indexOf(predictionArray, MathMax(predictionArray))
             maxConfidence == predictionArray[maxConfidenceIndex + 1]
             category ==
                 IF maxConfidence < CONFIDENCE_THRESHOLD
                 THEN "Unknown"
                 ELSE WASTE_CATEGORIES(maxConfidenceIndex % 4)
         IN  Resolved("postprocessResults", category, Min(maxConfidence, 100), "")

\* what a step of the pipeline hands on: a value, or an Error it throws
Thrown(message) == [thrown |-> TRUE, message |-> message]
Returned == [thrown |-> FALSE, message |-> ""]

Faults == {"none", "model", "preprocess", "inference", "postprocess"}

\* models.js:87-112: tf.browser.fromPixels throws on a missing image and on
\* one it cannot read; the catch block throws the error on
preprocessImage(uri, flt) ==
    IF uri = "missing" \/ flt = "preprocess"
    THEN Thrown("preprocessing failed")
    ELSE Returned

\* models.js:125-146
runInference(loaded, flt) ==
    IF ~loaded
    THEN Thrown("Model not initialized. Call initializeModel() first.")
    ELSE IF flt = "inference"
    THEN Thrown("inference failed")
    ELSE Returned

\* models.js:45-72: true when the model was loaded, false when loading failed
initializeModel(flt) == flt # "model"

\* classifyImage with the catch block of models.js:232-240 left out
classifyImage_NoCatch(uri, loaded, flt, predictionArray) ==
    LET tryBlock ==
            IF preprocessImage(uri, flt).thrown
            THEN preprocessImage(uri, flt)
            ELSE runInference(loaded, flt)
    IN  IF tryBlock.thrown
        THEN Rejected("classifyImage", tryBlock.message)
        ELSE [postprocessResults(predictionArray, flt = "postprocess")
                  EXCEPT !.call = "classifyImage"]

\* models.js:217-248, the version app/camera.tsx imports.  The finally block
\* disposes a tensor and changes nothing that is modelled.
classifyImage(uri, loaded, flt, predictionArray) ==
    LET tryBlock ==
            IF preprocessImage(uri, flt).thrown
            THEN preprocessImage(uri, flt)
            ELSE runInference(loaded, flt)
    IN  IF tryBlock.thrown
        THEN Resolved("classifyImage", "Unknown", 0, tryBlock.message)
        ELSE [postprocessResults(predictionArray, flt = "postprocess")
                  EXCEPT !.call = "classifyImage"]

\* the later version of classifyImage: input check, automatic model loading,
\* timeouts on the steps (a step that fails and one that times out both
\* throw an Error)
guideClassifyImage(uri, loaded, flt, predictionArray) ==
    IF uri = "missing"
    THEN Resolved("classifyImage", "Unknown", 0, "No image provided")
    ELSE IF ~loaded /\ ~initializeModel(flt)
    THEN Resolved("classifyImage", "Unknown", 0, "Model initialization failed")
    ELSE LET tryBlock ==
                 IF preprocessImage(uri, flt).thrown
                 THEN preprocessImage(uri, flt)
                 ELSE runInference(TRUE, flt)
         IN  IF tryBlock.thrown
             THEN Resolved("classifyImage", "Unknown", 0, tryBlock.message)
             ELSE [postprocessResults(predictionArray, flt = "postprocess")
                       EXCEPT !.call = "classifyImage"]

\* the mobile mock with the confidence of Unknown drawn from 0..0.3
mobileClassifyImage_UnknownFromZero(uri, clock, random) ==
    IF uri = "missing"
    THEN Resolved("classifyImage", "Unknown", 0, "No image provided")
    ELSE LET category == WASTE_CATEGORIES(clock % 4)
             confidence ==
                 CASE category = "Recyclable" -> 75 + ((random * 20) \div RandomDenom)
                   [] category = "Compostable" -> 65 + ((random * 25) \div RandomDenom)
                   [] category = "Trash" -> 55 + ((random * 30) \div RandomDenom)
                   [] OTHER -> 0 + ((random * 30) \div RandomDenom)
         IN  Resolved("classifyImage", category, Min(confidence, 100), "")

\* models.mobile.js:37-128: the category follows the clock, the confidence is
\* drawn from the range of the category
mobileClassifyImage(uri, clock, random) ==
    IF uri = "missing"
    THEN Resolved("classifyImage", "Unknown", 0, "No image provided")
    ELSE LET category == WASTE_CATEGORIES(clock % 4)
             confidence ==
                 CASE category = "Recyclable" -> 75 + ((random * 20) \div RandomDenom)
                   [] category = "Compostable" -> 65 + ((random * 25) \div RandomDenom)
                   [] category = "Trash" -> 55 + ((random * 30) \div RandomDenom)
                   [] OTHER -> 10 + ((random * 30) \div RandomDenom)
         IN  Resolved("classifyImage", category, Min(confidence, 100), "")

\* A call of the classifier on every input of the bounded sets.  The mock
\* takes no prediction array; the TensorFlow versions take no clock.
ModelInit ==
    /\ CameraInit
    /\ TipIdle
    /\ ErrorIdle
    /\ imageUri \in {"photo", "missing"}
    /\ modelLoaded \in BOOLEAN
    /\ classification = NotClassified
    /\ \/ /\ classifier \in {"tf", "guide"}
          /\ fault \in Faults
          /\ predictions \in PredictionArrays
          /\ mockClock = 0
          /\ mockRandom = 0
       \/ /\ classifier = "mobile"
          /\ fault = "none"
          /\ predictions = <<>>
          /\ mockClock \in 0..3
          /\ mockRandom \in 0..(RandomDenom - 1)

\* postprocessResults(predictions) on the output of the model
Postprocess ==
    /\ classifier \in {"tf", "guide"}
    /\ classification = NotClassified
    /\ classification' = postprocessResults(predictions, fault = "postprocess")
    /\ UNCHANGED <<cameraVars, tipVars, errorVars, classifier, imageUri, modelLoaded, fault,
                   predictions, mockClock, mockRandom>>

\* classifyImage(imageUri) of src/utils/models.js; a model that failed to
\* load is null
ClassifyImageTf ==
    /\ classifier = "tf"
    /\ classification = NotClassified
    /\ classification' =
           classifyImage(imageUri, modelLoaded /\ initializeModel(fault), fault, predictions)
    /\ UNCHANGED <<cameraVars, tipVars, errorVars, classifier, imageUri, modelLoaded, fault,
                   predictions, mockClock, mockRandom>>

ClassifyImageGuide ==
    /\ classifier = "guide"
    /\ classification = NotClassified
    /\ classification' = guideClassifyImage(imageUri, modelLoaded, fault, predictions)
    /\ modelLoaded' = (modelLoaded \/ (imageUri # "missing" /\ initializeModel(fault)))
    /\ UNCHANGED <<cameraVars, tipVars, errorVars, classifier, imageUri, fault,
                   predictions, mockClock, mockRandom>>

ClassifyImageMobile ==
    /\ classifier = "mobile"
    /\ classification = NotClassified
    /\ classification' = mobileClassifyImage(imageUri, mockClock, mockRandom)
    /\ modelLoaded' = (modelLoaded \/ imageUri # "missing")
    /\ UNCHANGED <<cameraVars, tipVars, errorVars, classifier, imageUri, fault,
                   predictions, mockClock, mockRandom>>

ModelNext ==
    \/ Postprocess
    \/ ClassifyImageTf
    \/ ClassifyImageGuide
    \/ ClassifyImageMobile

ModelSpec == ModelInit /\ [][ModelNext]_vars

-----------------------------------------------------------------------------
(* Claims about the classifier.                                            *)

\* C17: postprocessResults reports Unknown whenever the highest prediction
\* score is below CONFIDENCE_THRESHOLD (0.5), otherwise the category at
\* index (argmax mod 4) of Recyclable, Compostable, Trash, Unknown; the
\* confidence it reports never exceeds 1.0.
C17_PostprocessMapsArgmax ==
    (classification.call = "postprocessResults" /\ fault # "postprocess") =>
        LET highest == MathMax(predictions)
            argmax == indexOf(predictions, highest)
        IN  /\ highest < 50 => classification.category = "Unknown"
            /\ highest >= 50 =>
                   classification.category =
                       <<"Recyclable", "Compostable", "Trash", "Unknown">>[(argmax % 4) + 1]
            /\ classification.confidence <= 100

\* the highest score stands at index 4 and is a logit above 1.0: category
\* 4 mod 4 = 0, confidence capped
C17_Witness ==
    /\ classification.call = "postprocessResults"
    /\ predictions = <<49, 50, 49, 50, 130>>
    /\ classification.category = "Recyclable"
    /\ classification.confidence = 100

\* C18: classifyImage never rejects: when preprocessing, inference, model
\* initialisation or postprocessing fails, or the image URI is missing, it
\* resolves with {category: 'Unknown', confidence: 0.0} carrying an error
\* field, in the TensorFlow versions and in the mobile mock alike.
C18_ClassifyImageNeverRejects ==
    classification.call = "classifyImage" =>
        /\ classification.outcome = "resolved"
        /\ (\/ imageUri = "missing"
            \/ fault \in {"preprocess", "inference", "postprocess"}
            \/ (fault = "model" /\ ~modelLoaded)) =>
               /\ classification.category = "Unknown"
               /\ classification.confidence = 0
               /\ classification.error # ""

\* the model was never loaded and the TensorFlow version was asked to classify
C18_Witness ==
    /\ classifier = "tf"
    /\ classification.call = "classifyImage"
    /\ imageUri = "photo"
    /\ fault = "model"
    /\ ~modelLoaded
    /\ classification = Resolved("classifyImage", "Unknown", 0,
                                 "Model not initialized. Call initializeModel() first.")

-----------------------------------------------------------------------------
(* Claims about classifier failures and termination in the camera session. *)

\* the result classifyImage resolves with when its pipeline failed
\* (models.js:235-240), as handleDetectionResult sees it
FallbackResult == [category |-> "Unknown", confidence |-> 0]

\* C19: a failure of the classification pipeline is handled by the camera
\* screen as a result, not as an error: the fallback result with confidence 0
\* resets the error counter to 0, increments the no-detection counter (back
\* to 0 when the threshold is reached) and raises the low-light warning; the
\* error counter is above 0 only after a failed capture or a timeout.
C19_PipelineFailureHandledAsResult ==
    /\ (lastEvent.kind = "result" /\ lastEvent.result = FallbackResult) =>
           /\ inferenceErrors = 0
           /\ lastEvent.lowLight = "raise"
           /\ noDetectionCount =
                  IF lastEvent.countBefore + 1 >= NO_DETECTION_THRESHOLD
                  THEN 0
                  ELSE lastEvent.countBefore + 1
    /\ inferenceErrors > 0 => lastEvent.kind = "error"

\* C20: every periodic inference that starts (isInferencing set to true)
\* finishes and sets isInferencing back to false, whether the classification
\* returns, the capture or the classification throws, or the timeout fires:
\* isInferencing never stays true forever.
C20_InferenceEventuallyFinishes == isInferencing ~> ~isInferencing

\* an inference that ended with the timeout's error has cleared isInferencing
C20_Witness ==
    /\ lastEvent.kind = "error"
    /\ lastEvent.message = MsgInferenceTimeout
    /\ ~isInferencing
    /\ flights = {}

-----------------------------------------------------------------------------
(* Claims about the timeout, the user capture and the counters.            *)

\* C21: a periodic inference whose capture and classification have not
\* completed within INFERENCE_TIMEOUT of its start ends as the error
\* 'Inference timeout': it is counted as one inference error and shown as the
\* recoverable timeout (no alert); no flow is left waiting past its deadline,
\* so a result that arrives later reaches no handler.
C21_TimeoutEndsAsRecoverableError ==
    /\ \A f \in flights : now <= f.deadline
    /\ (lastEvent.kind = "error" /\ lastEvent.message = MsgInferenceTimeout) =>
           /\ detectionResult =
                  Display("Detection taking too long - try again", 0,
                          FALSE, FALSE, TRUE, MsgInferenceTimeout)
           /\ lastEvent.alert = NoAlert
           /\ failRun <= MaxRun => inferenceErrors = failRun

C23_NoInferenceWhileCapturing ==
    [][isCapturing => flights' \subseteq flights]_vars

\* C24: the no-detection counter changes only in the step that handles a
\* result: it grows (by one) only for a result below 0.1 and drops to 0 only
\* for a result of 0.3 or more or for the escalation; a middle-band result,
\* an inference error and a user capture leave it as it was.
C24_CounterFrame ==
    [][/\ noDetectionCount' # noDetectionCount =>
              /\ lastEvent'.kind = "result"
              /\ noDetectionCount' > noDetectionCount =>
                     /\ lastEvent'.result.confidence < LOW_CONFIDENCE_THRESHOLD
                     /\ noDetectionCount' = noDetectionCount + 1
              /\ noDetectionCount' < noDetectionCount =>
                     /\ noDetectionCount' = 0
                     /\ \/ lastEvent'.result.confidence >= CONFIDENCE_DISPLAY_THRESHOLD
                        \/ detectionResult'.isHelpMessage
       /\ captures' # captures => noDetectionCount' = noDetectionCount
       /\ (lastEvent' # lastEvent /\ lastEvent'.kind = "error") =>
              noDetectionCount' = noDetectionCount]_vars

C24_Witness ==
    /\ ResultHandled
    /\ HandledConfidence >= LOW_CONFIDENCE_THRESHOLD
    /\ HandledConfidence < CONFIDENCE_DISPLAY_THRESHOLD
    /\ lastEvent.countBefore = 1
    /\ noDetectionCount = 1
    /\ route = "camera"

\* the value the counter has after the handler ran for result, in a render
\* whose counter is count
CountAfter(result, count) ==
    LET set == handleDetectionResult(result, count).setNoDetectionCount
    IN  IF set = <<>> THEN count ELSE Last(set)

\* C25: once a detection handler has finished the no-detection counter is in
\* 0..NO_DETECTION_THRESHOLD - 1: it starts at 0, and a handler that takes it
\* to NO_DETECTION_THRESHOLD leaves it at 0.
C25_CounterInRange ==
    /\ noDetectionCount \in 0..(NO_DETECTION_THRESHOLD - 1)
    /\ \A result \in Results :
           /\ CountAfter(result, noDetectionCount) \in 0..(NO_DETECTION_THRESHOLD - 1)
           /\ \A count \in 0..(NO_DETECTION_THRESHOLD - 1) :
                  CountAfter(result, count) \in 0..(NO_DETECTION_THRESHOLD - 1)

C25_Witness ==
    /\ ResultHandled
    /\ HandledConfidence < LOW_CONFIDENCE_THRESHOLD
    /\ lowRun >= NO_DETECTION_THRESHOLD
    /\ noDetectionCount = 1

\* C26: escalation does not reset the error counter: in an uninterrupted run
\* of non-recoverable inference errors the 'Detection Error' alert is raised
\* on the 3rd error and on every later one, and the counter keeps growing
\* with the run.
C26_EscalationKeepsCounting ==
    (/\ ErrorHandled
     /\ ~ErrorCategory(lastEvent.message).isRecoverable
     /\ failRun >= MAX_INFERENCE_ERRORS
     /\ failRun <= MaxRun) =>
        /\ lastEvent.alert = AlertDetectionError
        /\ inferenceErrors = failRun
        /\ inferenceErrors >= MAX_INFERENCE_ERRORS

\* generateTip(category) of lib/utils/tipGenerator.js reaches its recursive
\* call: no earlier rule returned (tipGenerator.js:89-118) and the key
\* includes 'Possible' (tipGenerator.js:120)
ReachesRecursiveCall(category) ==
    /\ ~InvalidCategory(category)
    /\ ~Truthy(Property(tipTemplates, category))
    /\ ~Includes(category, <<"e","r","r","o","r">>)
    /\ ~Includes(category, <<"E","r","r","o","r">>)
    /\ ~Includes(category, <<"N","o"," ","c","l","e","a","r"," ","o","b","j","e","c","t">>)
    /\ ~Includes(category, <<"n","o"," ","c","l","e","a","r"," ","o","b","j","e","c","t">>)
    /\ ~Includes(category, <<"a","d","j","u","s","t","i","n","g">>)
    /\ ~Includes(category, <<"l","i","g","h","t","i","n","g">>)
    /\ Includes(category, <<"P","o","s","s","i","b","l","e">>)

\* const baseCategory = category.replace('Possible ', '') (tipGenerator.js:122)
baseCategory(category) ==
    ReplaceFirstWithEmpty(category, <<"P","o","s","s","i","b","l","e"," ">>)

RECURSIVE EveryRecursiveCallShrinks(_)
\* every recursive call made for category, and for the keys passed on, gets
\* a key shorter than its caller's
EveryRecursiveCallShrinks(category) ==
    ReachesRecursiveCall(category) =>
        /\ Len(baseCategory(category)) < Len(category)
        /\ EveryRecursiveCallShrinks(baseCategory(category))

\* C27: generateTip terminates for every string key: each recursive call
\* made for a key containing 'Possible' receives a strictly shorter key.
C27_RecursionShrinksKey ==
    (TipReturned /\ tipImpl = "lib") =>
        /\ EveryRecursiveCallShrinks(tipKey)
        /\ tipResult # RangeError

\* the step handles the result of a periodic inference
ResultStep ==
    /\ Cardinality(flights') < Cardinality(flights)
    /\ lastEvent'.kind = "result"

\* C28: a result with confidence below 0.05 raises lowLightWarning, and a
\* raised warning goes down only through a result of 0.3 or more or through
\* the timer of the most recent result below 0.05, 3 s after that result
\* (no timer of a later such result is still pending then).
C28_LowLightWarningLastsThreeSeconds ==
    [][/\ (ResultStep /\ lastEvent'.result.confidence < LOW_LIGHT_CONFIDENCE) =>
              /\ lowLightWarning'
              /\ now + LOW_LIGHT_CLEAR_DELAY \in lowLightTimers'
       /\ (lowLightWarning /\ ~lowLightWarning') =>
              \/ /\ ResultStep
                 /\ lastEvent'.result.confidence >= CONFIDENCE_DISPLAY_THRESHOLD
              \/ /\ lowLightTimers' # lowLightTimers
                 /\ \A fired \in lowLightTimers \ lowLightTimers' :
                        /\ fired <= now + INFERENCE_INTERVAL
                        /\ \A pending \in lowLightTimers' : pending <= fired]_vars

-----------------------------------------------------------------------------
(* The error handler (src/utils/errorHandler.js).                          *)

\* the object categorizeError returns; the suggestions, fixed per category,
\* are left out
Analysis(category, severity, userMessage, technicalMessage, recoverable) ==
    [category |-> category, severity |-> severity, userMessage |-> userMessage,
     technicalMessage |-> technicalMessage, recoverable |-> recoverable]

\* Error.prototype.toString() of an Error whose message is empty
ErrorToString == <<"E","r","r","o","r">>

\* typeof error === 'string' ? error
\*     : (error?.message || error?.toString() || 'Unknown error')
\* (errorHandler.js:42); error is a string, an Error, null or undefined
ErrorMessageOf(error) ==
    IF error.type = "string"
    THEN error.message
    ELSE IF error.type = "Error"
    THEN IF error.message # <<>> THEN error.message ELSE ErrorToString
    ELSE <<"U","n","k","n","o","w","n"," ","e","r","r","o","r">>

\* categorizeError with the memory rule tried before the network rule
categorizeError_MemoryFirst(error, context) ==
    LET errorMessage == ErrorMessageOf(error)
        lowerMessage == toLowerCase(errorMessage)
        lowerContext == toLowerCase(context)
    IN  IF \/ Includes(lowerMessage, <<"c","a","m","e","r","a">>)
           \/ Includes(lowerMessage, <<"p","e","r","m","i","s","s","i","o","n">>)
           \/ Includes(lowerContext, <<"c","a","m","e","r","a">>)
         THEN IF \/ Includes(lowerMessage, <<"d","e","n","i","e","d">>)
                 \/ Includes(lowerMessage, <<"p","e","r","m","i","s","s","i","o","n">>)
              THEN Analysis("permission", "high",
                       "Camera permission is required to scan waste items",
                       errorMessage, TRUE)
              ELSE Analysis("camera", "medium",
                       "Camera error occurred - please try again",
                       errorMessage, TRUE)
         ELSE IF \/ Includes(lowerMessage, <<"m","o","d","e","l">>)
                 \/ Includes(lowerMessage, <<"t","e","n","s","o","r">>)
                 \/ Includes(lowerMessage, <<"i","n","f","e","r","e","n","c","e">>)
                 \/ Includes(lowerContext, <<"m","o","d","e","l">>)
         THEN LET severity ==
                      IF \/ Includes(lowerMessage, <<"n","o","t"," ","i","n","i","t","i","a","l","i","z","e","d">>)
                         \/ Includes(lowerMessage, <<"f","a","i","l","e","d"," ","t","o"," ","l","o","a","d">>)
                      THEN "critical"
                      ELSE "medium"
              IN  Analysis("model", severity,
                           "AI model error - waste classification may not work properly",
                           errorMessage, severity # "critical")
         ELSE IF \/ Includes(lowerMessage, <<"m","e","m","o","r","y">>)
                 \/ Includes(lowerMessage, <<"o","u","t","o","f","m","e","m","o","r","y">>)
                 \/ Includes(lowerMessage, <<"a","l","l","o","c","a","t","i","o","n">>)
         THEN Analysis("memory", "high",
                       "Low memory error - close other apps and try again",
                       errorMessage, TRUE)
         ELSE IF \/ Includes(lowerMessage, <<"n","e","t","w","o","r","k">>)
                 \/ Includes(lowerMessage, <<"f","e","t","c","h">>)
                 \/ Includes(lowerMessage, <<"l","o","a","d">>)
                 \/ Includes(lowerMessage, <<"c","o","n","n","e","c","t","i","o","n">>)
         THEN Analysis("network", "medium",
                       "Network error - check your internet connection",
                       errorMessage, TRUE)
         ELSE IF \/ Includes(lowerMessage, <<"t","i","m","e","o","u","t">>)
                 \/ Includes(lowerMessage, <<"t","i","m","e","d"," ","o","u","t">>)
         THEN Analysis("timeout", "low",
                       "Operation taking too long - please try again",
                       errorMessage, TRUE)
         ELSE IF \/ Includes(lowerMessage, <<"i","m","a","g","e">>)
                 \/ Includes(lowerMessage, <<"p","r","e","p","r","o","c","e","s","s">>)
                 \/ Includes(lowerContext, <<"i","m","a","g","e">>)
         THEN Analysis("image", "low",
                       "Image processing error - try scanning again",
                       errorMessage, TRUE)
         ELSE Analysis("unknown", "medium",
                       "An unexpected error occurred",
                       errorMessage, TRUE)

\* categorizeError (errorHandler.js:41-175)
categorizeError(error, context) ==
    LET errorMessage == ErrorMessageOf(error)
        lowerMessage == toLowerCase(errorMessage)
        lowerContext == toLowerCase(context)
    IN  IF \/ Includes(lowerMessage, <<"c","a","m","e","r","a">>)
           \/ Includes(lowerMessage, <<"p","e","r","m","i","s","s","i","o","n">>)
           \/ Includes(lowerContext, <<"c","a","m","e","r","a">>)
         THEN IF \/ Includes(lowerMessage, <<"d","e","n","i","e","d">>)
                 \/ Includes(lowerMessage, <<"p","e","r","m","i","s","s","i","o","n">>)
              THEN Analysis("permission", "high",
                       "Camera permission is required to scan waste items",
                       errorMessage, TRUE)
              ELSE Analysis("camera", "medium",
                       "Camera error occurred - please try again",
                       errorMessage, TRUE)
         ELSE IF \/ Includes(lowerMessage, <<"m","o","d","e","l">>)
                 \/ Includes(lowerMessage, <<"t","e","n","s","o","r">>)
                 \/ Includes(lowerMessage, <<"i","n","f","e","r","e","n","c","e">>)
                 \/ Includes(lowerContext, <<"m","o","d","e","l">>)
         THEN LET severity ==
                      IF \/ Includes(lowerMessage, <<"n","o","t"," ","i","n","i","t","i","a","l","i","z","e","d">>)
                         \/ Includes(lowerMessage, <<"f","a","i","l","e","d"," ","t","o"," ","l","o","a","d">>)
                      THEN "critical"
                      ELSE "medium"
              IN  Analysis("model", severity,
                           "AI model error - waste classification may not work properly",
                           errorMessage, severity # "critical")
         ELSE IF \/ Includes(lowerMessage, <<"n","e","t","w","o","r","k">>)
                 \/ Includes(lowerMessage, <<"f","e","t","c","h">>)
                 \/ Includes(lowerMessage, <<"l","o","a","d">>)
                 \/ Includes(lowerMessage, <<"c","o","n","n","e","c","t","i","o","n">>)
         THEN Analysis("network", "medium",
                       "Network error - check your internet connection",
                       errorMessage, TRUE)
         ELSE IF \/ Includes(lowerMessage, <<"m","e","m","o","r","y">>)
                 \/ Includes(lowerMessage, <<"o","u","t","o","f","m","e","m","o","r","y">>)
                 \/ Includes(lowerMessage, <<"a","l","l","o","c","a","t","i","o","n">>)
         THEN Analysis("memory", "high",
                       "Low memory error - close other apps and try again",
                       errorMessage, TRUE)
         ELSE IF \/ Includes(lowerMessage, <<"t","i","m","e","o","u","t">>)
                 \/ Includes(lowerMessage, <<"t","i","m","e","d"," ","o","u","t">>)
         THEN Analysis("timeout", "low",
                       "Operation taking too long - please try again",
                       errorMessage, TRUE)
         ELSE IF \/ Includes(lowerMessage, <<"i","m","a","g","e">>)
                 \/ Includes(lowerMessage, <<"p","r","e","p","r","o","c","e","s","s">>)
                 \/ Includes(lowerContext, <<"i","m","a","g","e">>)
         THEN Analysis("image", "low",
                       "Image processing error - try scanning again",
                       errorMessage, TRUE)
         ELSE Analysis("unknown", "medium",
                       "An unexpected error occurred",
                       errorMessage, TRUE)

\* isRecoverableError (errorHandler.js:231-234)
isRecoverableError(error, context) ==
    LET analysis == categorizeError(error, context)
    IN  analysis.recoverable /\ analysis.severity # "critical"

\* error messages: of the camera screen and the classifier, matching one
\* rule, several rules or none
ErrorMessages == {
    <<"C","a","m","e","r","a"," ","i","s"," ","n","o","t"," ","r","e","a","d","y">>,
    <<"P","e","r","m","i","s","s","i","o","n"," ","d","e","n","i","e","d">>,
    <<"a","c","c","e","s","s"," ","d","e","n","i","e","d">>,
    <<"C","a","m","e","r","a"," ","p","e","r","m","i","s","s","i","o","n"," ","n","o","t"," ","g","r","a","n","t","e","d">>,
    <<"M","o","d","e","l"," ","n","o","t"," ","i","n","i","t","i","a","l","i","z","e","d">>,
    <<"F","a","i","l","e","d"," ","t","o"," ","l","o","a","d"," ","m","o","d","e","l">>,
    <<"t","e","n","s","o","r"," ","a","l","l","o","c","a","t","i","o","n"," ","f","a","i","l","e","d">>,
    <<"I","n","f","e","r","e","n","c","e"," ","t","i","m","e","o","u","t">>,
    <<"N","e","t","w","o","r","k"," ","r","e","q","u","e","s","t"," ","f","a","i","l","e","d">>,
    <<"F","a","i","l","e","d"," ","t","o"," ","f","e","t","c","h"," ","i","m","a","g","e">>,
    <<"f","a","i","l","e","d"," ","t","o"," ","l","o","a","d">>,
    <<"c","o","n","n","e","c","t","i","o","n"," ","t","i","m","e","d"," ","o","u","t">>,
    <<"O","u","t"," ","o","f"," ","m","e","m","o","r","y">>,
    <<"O","u","t","O","f","M","e","m","o","r","y","E","r","r","o","r">>,
    <<"n","o","t"," ","e","n","o","u","g","h"," ","m","e","m","o","r","y"," ","t","o"," ","l","o","a","d">>,
    <<"m","e","m","o","r","y"," ","a","l","l","o","c","a","t","i","o","n"," ","t","i","m","e","o","u","t">>,
    <<"R","e","q","u","e","s","t"," ","t","i","m","e","o","u","t">>,
    <<"O","p","e","r","a","t","i","o","n"," ","t","i","m","e","d"," ","o","u","t">>,
    <<"I","n","v","a","l","i","d"," ","i","m","a","g","e">>,
    <<"p","r","e","p","r","o","c","e","s","s"," ","f","a","i","l","e","d">>,
    <<"i","m","a","g","e"," ","t","i","m","e","o","u","t">>,
    <<"S","o","m","e","t","h","i","n","g"," ","w","e","n","t"," ","w","r","o","n","g">>,
    <<>>,
    <<"C","A","M","E","R","A"," ","E","R","R","O","R">> }

ErrorArgs ==
    {[type |-> "string", message |-> m] : m \in ErrorMessages}
    \cup {[type |-> "Error", message |-> m] : m \in ErrorMessages}
    \cup {[type |-> "null"], [type |-> "undefined"]}

ErrorContexts == {
    <<>>,
    <<"c","a","m","e","r","a">>,
    <<"C","a","m","e","r","a">>,
    <<"m","o","d","e","l">>,
    <<"i","m","a","g","e">>,
    <<"i","n","f","e","r","e","n","c","e">> }

ErrorInit ==
    /\ CameraInit
    /\ TipIdle
    /\ ModelIdle
    /\ errorArg \in ErrorArgs
    /\ errorContext \in ErrorContexts
    /\ errorAnalysis = NotCategorized

\* a call categorizeError(error, context)
CategorizeError ==
    /\ errorAnalysis = NotCategorized
    /\ errorAnalysis' = categorizeError(errorArg, errorContext)
    /\ UNCHANGED <<cameraVars, tipVars, modelVars, errorArg, errorContext>>

ErrorNext == CategorizeError

ErrorSpec == ErrorInit /\ [][ErrorNext]_vars

\* the rules of categorizeError in the order it tries them
ErrorRules == <<"camera", "model", "network", "memory", "timeout", "image">>

\* the words rule looks for in the lower-cased message and context
\* (errorHandler.js:47, 78, 99, 115, 131, 147)
RuleMatches(rule, message, context) ==
    CASE rule = "camera" ->
               \/ Includes(message, <<"c","a","m","e","r","a">>)
               \/ Includes(message, <<"p","e","r","m","i","s","s","i","o","n">>)
               \/ Includes(context, <<"c","a","m","e","r","a">>)
      [] rule = "model" ->
               \/ Includes(message, <<"m","o","d","e","l">>)
               \/ Includes(message, <<"t","e","n","s","o","r">>)
               \/ Includes(message, <<"i","n","f","e","r","e","n","c","e">>)
               \/ Includes(context, <<"m","o","d","e","l">>)
      [] rule = "network" ->
               \/ Includes(message, <<"n","e","t","w","o","r","k">>)
               \/ Includes(message, <<"f","e","t","c","h">>)
               \/ Includes(message, <<"l","o","a","d">>)
               \/ Includes(message, <<"c","o","n","n","e","c","t","i","o","n">>)
      [] rule = "memory" ->
               \/ Includes(message, <<"m","e","m","o","r","y">>)
               \/ Includes(message, <<"o","u","t","o","f","m","e","m","o","r","y">>)
               \/ Includes(message, <<"a","l","l","o","c","a","t","i","o","n">>)
      [] rule = "timeout" ->
               \/ Includes(message, <<"t","i","m","e","o","u","t">>)
               \/ Includes(message, <<"t","i","m","e","d"," ","o","u","t">>)
      [] rule = "image" ->
               \/ Includes(message, <<"i","m","a","g","e">>)
               \/ Includes(message, <<"p","r","e","p","r","o","c","e","s","s">>)
               \/ Includes(context, <<"i","m","a","g","e">>)

\* the categories a rule returns (the camera rule returns 'permission' or
\* 'camera')
RuleCategories(rule) ==
    IF rule = "camera" THEN {"camera", "permission"} ELSE {rule}

Categorized == errorAnalysis # NotCategorized

\* C29: categorizeError is total and returns the category of the first rule
\* that matches, in the order camera/permission, model, network, memory,
\* timeout, image; a message that matches several rules gets the earliest
\* one, one that matches none gets 'unknown' with recoverable = true.
C29_FirstMatchingRuleDecides ==
    Categorized =>
        LET message == toLowerCase(ErrorMessageOf(errorArg))
            context == toLowerCase(errorContext)
            matching == {i \in 1..Len(ErrorRules) :
                             RuleMatches(ErrorRules[i], message, context)}
        IN  /\ errorAnalysis.technicalMessage = ErrorMessageOf(errorArg)
            /\ IF matching = {}
               THEN /\ errorAnalysis.category = "unknown"
                    /\ errorAnalysis.recoverable
                    /\ isRecoverableError(errorArg, errorContext)
               ELSE \E i \in matching :
                        /\ \A j \in matching : i <= j
                        /\ errorAnalysis.category \in RuleCategories(ErrorRules[i])

\* a message that matches the network, the memory and no earlier rule was
\* put in the network category
C29_Witness ==
    /\ Categorized
    /\ errorArg = [type |-> "Error", message |-> <<"n","o","t"," ","e","n","o","u","g","h"," ","m","e","m","o","r","y"," ","t","o"," ","l","o","a","d">>]
    /\ errorContext = <<>>
    /\ errorAnalysis.category = "network"

-----------------------------------------------------------------------------
(* The mobile camera screen: the same state machine, its periodic          *)
(* inference classifying a mock frame with lib/utils/models.mobile.js.     *)

\* the mock's clock and random number, and the result of
\* classifyImage(photo.uri) for the URI 'mock://camera-frame-...'
MockClocks == 0..3
MockRandoms == 0..(RandomDenom - 1)
MockResult(clock, random) ==
    LET resolved == mobileClassifyImage("photo", clock, random)
    IN  [category |-> resolved.category, confidence |-> resolved.confidence]

\* the race of the mobile scheduleInference is won by the mock classifier
MobileResolves ==
    /\ route = "camera"
    /\ \E f \in flights, clock \in MockClocks, random \in MockRandoms :
           InferenceReturns(f, MockResult(clock, random))

MobileNext ==
    \/ PermissionGranted
    \/ PermissionDenied
    \/ PermissionThrows
    \/ RetryPermission
    \/ GoBack
    \/ Tick
    \/ MobileResolves
    \/ InferenceTimesOut

MobileSpec == Init /\ [][MobileNext]_vars

\* C30: the mobile mock classifier gives every non-empty image URI a
\* confidence in [0.1, 1.0], below 0.3 for category Unknown only; in the
\* mobile camera screen the no-detection counter stays 0, the labels 'No
\* clear object detected' and the help message are never shown, and the only
\* 'Possible' label is 'Possible Unknown'.
C30_MobileMockNeverCountsNoDetection ==
    /\ \A clock \in MockClocks, random \in MockRandoms :
           LET result == MockResult(clock, random)
           IN  /\ result.confidence >= LOW_CONFIDENCE_THRESHOLD
               /\ result.confidence <= 100
               /\ result.confidence < CONFIDENCE_DISPLAY_THRESHOLD =>
                      result.category = "Unknown"
    /\ noDetectionCount = 0
    /\ lowLightTimers = {}
    /\ detectionResult.category \notin NoDetectionFamily
    /\ ~detectionResult.isHelpMessage
    /\ detectionResult.isLowConfidence =>
           detectionResult.category = "Possible Unknown"

C30_Witness ==
    /\ ResultHandled
    /\ HandledConfidence = LOW_CONFIDENCE_THRESHOLD
    /\ detectionResult.category = "Possible Unknown"
    /\ noDetectionCount = 0

=============================================================================
